---- MODULE Spec2Model ----
(***************************************************************************)
(* State-machine model of the scalping signal core: the prediction journal *)
(* (journal.py), the session clock and the confidence scoring loop         *)
(* (prediction_engine.py).                                                 *)
(***************************************************************************)
EXTENDS Integers, Sequences, FiniteSets, TLC

(***************************************************************************)
(* Bounds of the model.                                                    *)
(***************************************************************************)
\* longest batch (rows of new_preds) handed to upsert_predictions
MaxBatch == 2

\* clock ticks in a minute
TicksPerMinute == 2

\* longest journal file taken as prior contents
MaxRows == 2

(***************************************************************************)
(* journal.py: the persisted prediction journal.                           *)
(***************************************************************************)
\* pd.NA, the empty cell
NA == "NA"

\* the key columns of a prediction record (drop_duplicates subset, key_mask)
KEY_COLUMNS == {"date", "time_bucket", "ticker"}

\* the columns of the journal that the model carries: the three key columns
\* and three non-key columns; the code treats all non-key columns alike
PREDICTION_COLUMNS ==
    KEY_COLUMNS \cup {"prediction_action", "market_regime", "status_code"}

\* Cells of a date column: timestamps counted in half days. An even number
\* is midnight, which is how a plain calendar date reads as a timestamp;
\* 3 is noon of the day that begins at 2.
DateCells == {2, 3}
\* a time bucket "HH:MM" is carried as <<hour, minute>>
BucketCells == {<<10, 0>>}
TickerCells == {"A", "B"}
ActionCells == {"LONG_BIAS", "NO_TRADE"}

\* pd.to_datetime(col).dt.date : the calendar day of a timestamp
ToDate(cell) == 2 * (cell \div 2)

\* all sequences over S of length 0..n
SeqUpTo(S, n) == UNION {[1..k -> S] : k \in 0..n}

\* the frames a caller can hand over: the key columns are always there, the
\* non-key column may be missing from the frame altogether
FrameRows(cols) ==
    IF "prediction_action" \in cols
    THEN [date : DateCells, time_bucket : BucketCells, ticker : TickerCells,
          prediction_action : ActionCells]
    ELSE [date : DateCells, time_bucket : BucketCells, ticker : TickerCells]

Frames ==
    UNION {[columns : {cols}, rows : SeqUpTo(FrameRows(cols), MaxBatch)] :
              cols \in {KEY_COLUMNS, KEY_COLUMNS \cup {"prediction_action"}}}

\* DataFrame.empty
IsEmpty(df) == Len(df.rows) = 0

\* (date, time_bucket, ticker) of a row
KeyOf(row) == <<row["date"], row["time_bucket"], row["ticker"]>>

\* key_mask: the positions of journal_df whose key equals the row's key
KeyMask(journal_df, row) ==
    {i \in 1..Len(journal_df) :
        /\ journal_df[i]["date"] = row["date"]
        /\ journal_df[i]["time_bucket"] = row["time_bucket"]
        /\ journal_df[i]["ticker"] = row["ticker"]}

\* Normalise without the date conversion of lines 78-79
NormaliseKeepTimestamps(new_preds) ==
    [i \in 1..Len(new_preds.rows) |->
        [col \in PREDICTION_COLUMNS |->
            IF col \notin new_preds.columns THEN NA
            ELSE new_preds.rows[i][col]]]

\* lines 72-79: every missing column of new_preds is added as pd.NA and the
\* date column is normalised to calendar dates
Normalise(new_preds) ==
    [i \in 1..Len(new_preds.rows) |->
        [col \in PREDICTION_COLUMNS |->
            IF col \notin new_preds.columns THEN NA
            ELSE IF col = "date" THEN ToDate(new_preds.rows[i][col])
            ELSE new_preds.rows[i][col]]]

Min(S) == CHOOSE x \in S : \A y \in S : x <= y

\* MergeRow that keeps the stored cell where the incoming cell is empty
MergeRowKeepOld(journal_df, row) ==
    IF KeyMask(journal_df, row) # {}
    THEN LET idx == Min(KeyMask(journal_df, row))
         IN  [journal_df EXCEPT ![idx] =
                 [col \in PREDICTION_COLUMNS |->
                     IF col \notin KEY_COLUMNS /\ row[col] = NA
                     THEN journal_df[idx][col] ELSE row[col]]]
    ELSE Append(journal_df, row)

\* one pass of the loop over new_preds.iterrows(): overwrite the first
\* matching row column by column, or append
MergeRow(journal_df, row) ==
    IF KeyMask(journal_df, row) # {}
    THEN LET idx == Min(KeyMask(journal_df, row))
         IN  [journal_df EXCEPT ![idx] =
                 [col \in PREDICTION_COLUMNS |-> row[col]]]
    ELSE Append(journal_df, row)

RECURSIVE MergeRows(_, _)
MergeRows(journal_df, rows) ==
    IF rows = <<>> THEN journal_df
    ELSE MergeRows(MergeRow(journal_df, Head(rows)), Tail(rows))

\* positions kept by drop_duplicates(subset = key columns, keep = "last")
KeptLast(df) ==
    {i \in 1..Len(df) : \A j \in (i + 1)..Len(df) : KeyOf(df[j]) # KeyOf(df[i])}

RECURSIVE Pick(_, _, _)
Pick(df, keep, i) ==
    IF i > Len(df) THEN <<>>
    ELSE IF i \in keep THEN <<df[i]>> \o Pick(df, keep, i + 1)
    ELSE Pick(df, keep, i + 1)

DropDuplicates(df) == Pick(df, KeptLast(df), 1)

\* load_prediction_journal: the rows of the file, the date column read back
\* as calendar dates
LoadPredictionJournal(file_rows) ==
    [i \in 1..Len(file_rows) |->
        [col \in PREDICTION_COLUMNS |->
            IF col = "date" THEN ToDate(file_rows[i][col])
            ELSE file_rows[i][col]]]

\* the frame upsert_predictions saves, from the loaded journal and a
\* non-empty batch
Merged(journal_df, new_preds) ==
    DropDuplicates(MergeRows(journal_df, Normalise(new_preds)))

\* UpsertResult that merges into an empty frame in place of the loaded one
UpsertResultFresh(file_rows, df) ==
    IF IsEmpty(df) THEN file_rows
    ELSE Merged(<<>>, df)

\* the file after upsert_predictions(df): an empty frame returns before the
\* file is touched; otherwise load, merge, drop duplicates, save
UpsertResult(file_rows, df) ==
    IF IsEmpty(df) THEN file_rows
    ELSE Merged(LoadPredictionJournal(file_rows), df)

\* the rows a journal file can hold
JournalRows ==
    [date : {ToDate(c) : c \in DateCells}, time_bucket : BucketCells,
     ticker : TickerCells, prediction_action : ActionCells \cup {NA},
     market_regime : {NA}, status_code : {NA}]

(***************************************************************************)
(* config.py, prediction_engine.py: the session clock.                     *)
(***************************************************************************)
\* time(h, m) in clock ticks since midnight
Clock(h, m) == (h * 60 + m) * TicksPerMinute

MARKET_OPEN == Clock(9, 15)
STUDY_END == Clock(10, 0)
SCALP_1_START == Clock(10, 0)
SCALP_1_END == Clock(11, 30)
NO_NEW_1_START == SCALP_1_END
NO_NEW_1_END == Clock(13, 30)
SCALP_2_START == Clock(13, 30)
SCALP_2_END == Clock(14, 45)
NO_NEW_2_START == SCALP_2_END
MARKET_CLOSE == Clock(15, 30)

\* every time of day the clock can show
TimesOfDay == 0..(Clock(24, 0) - 1)

\* get_time_status with the market closed from the closing time on
get_time_status_ClosedAtClose(t) ==
    IF t < MARKET_OPEN \/ t >= MARKET_CLOSE THEN "CLOSED"
    ELSE IF MARKET_OPEN <= t /\ t < STUDY_END THEN "STUDY"
    ELSE IF SCALP_1_START <= t /\ t < SCALP_1_END THEN "SCALP_1"
    ELSE IF NO_NEW_1_START <= t /\ t < NO_NEW_1_END THEN "NO_NEW_1"
    ELSE IF SCALP_2_START <= t /\ t < SCALP_2_END THEN "SCALP_2"
    ELSE IF NO_NEW_2_START <= t /\ t <= MARKET_CLOSE THEN "NO_NEW_2"
    ELSE "OPEN"

\* get_time_status(now_ist)["code"], t the time of day of now_ist
get_time_status(t) ==
    IF t < MARKET_OPEN \/ t > MARKET_CLOSE THEN "CLOSED"
    ELSE IF MARKET_OPEN <= t /\ t < STUDY_END THEN "STUDY"
    ELSE IF SCALP_1_START <= t /\ t < SCALP_1_END THEN "SCALP_1"
    ELSE IF NO_NEW_1_START <= t /\ t < NO_NEW_1_END THEN "NO_NEW_1"
    ELSE IF SCALP_2_START <= t /\ t < SCALP_2_END THEN "SCALP_2"
    ELSE IF NO_NEW_2_START <= t /\ t <= MARKET_CLOSE THEN "NO_NEW_2"
    ELSE "OPEN"

(***************************************************************************)
(* prediction_engine.py: the scoring loop of                               *)
(* generate_predictions_for_watchlist. Confidence components are counted   *)
(* in tenths, scores in hundredths.                                        *)
\* config.py line 40
PREDICTION_TIME_BUCKET_MINUTES == 15

\* floor_time_to_bucket that goes to the nearest bucket of the hour
floor_time_to_bucket_Nearest(dt, minutes) ==
    LET hour == dt \div (60 * TicksPerMinute)
        minute == (dt \div TicksPerMinute) % 60
        nearest == ((minute + minutes \div 2) \div minutes) * minutes
    IN  <<hour, IF nearest >= 60 THEN 60 - minutes ELSE nearest>>

\* lines 81-85: the bucket "HH:MM" of the time of day dt, as <<hour, minute>>
floor_time_to_bucket(dt, minutes) ==
    LET hour == dt \div (60 * TicksPerMinute)
        minute == (dt \div TicksPerMinute) % 60
    IN  <<hour, (minute \div minutes) * minutes>>

(***************************************************************************)
(* compute_market_regime (prediction_engine.py lines 118-169). A benchmark *)
(* frame is carried by what the function reads of it: the count of its     *)
(* bars, the first, last, lowest and highest close, and the standard       *)
(* deviation of the closes' percentage changes in units of 0.0001.         *)
(***************************************************************************)
\* most bars of a benchmark frame
MaxBars == 31

\* line 126: the fewest bars compute_market_regime classifies
RegimeMinBars == 30

ClosePrices == 100..105
ReturnDeviations == {0, 15, 16, 39, 40, 41}

\* the frame of a fetch that gave nothing, or raised (lines 208-211)
EmptyBenchmark ==
    [bars |-> 0, first |-> 100, last |-> 100, low |-> 100, high |-> 100,
     intraday_vol |-> 0]

\* the frames get_intraday_history can give: one bar has no returns, equal
\* closes have none that differ, two bars are the lowest and the highest
BenchmarkFrames ==
    {EmptyBenchmark} \cup
    {f \in [bars : 1..MaxBars, first : ClosePrices, last : ClosePrices,
            low : ClosePrices, high : ClosePrices,
            intraday_vol : ReturnDeviations] :
        /\ f.low <= f.first /\ f.first <= f.high
        /\ f.low <= f.last /\ f.last <= f.high
        /\ f.bars = 1 => f.first = f.last /\ f.low = f.high
        /\ f.bars = 2 => {f.low, f.high} = {f.first, f.last}
        /\ f.low = f.high => f.intraday_vol = 0}

Abs(x) == IF x < 0 THEN -x ELSE x

\* lines 163-169 with the second return left out
compute_market_regime_NoHighVolatility(frame) ==
    IF frame.bars = 0 \/ frame.bars < RegimeMinBars THEN "UNKNOWN"
    ELSE LET day_range == frame.high - frame.low
             price_change == Abs(frame.last - frame.first)
             vol_tag == IF frame.intraday_vol >= 40 THEN "HIGH"
                        ELSE IF frame.intraday_vol <= 15 THEN "LOW"
                        ELSE "MEDIUM"
             trend_tag == IF day_range # 0 /\ 10 * price_change >= 6 * day_range
                          THEN "TREND" ELSE "RANGE"
         IN  IF trend_tag = "TREND" /\ vol_tag \in {"HIGH", "MEDIUM"} THEN "TREND_DAY"
             ELSE IF vol_tag = "LOW" THEN "LOW_VOLATILITY"
             ELSE "RANGE_DAY"

\* line 126 with <= in place of <
compute_market_regime_Over30(frame) ==
    IF frame.bars = 0 \/ frame.bars <= RegimeMinBars THEN "UNKNOWN"
    ELSE LET day_range == frame.high - frame.low
             price_change == Abs(frame.last - frame.first)
             vol_tag == IF frame.intraday_vol >= 40 THEN "HIGH"
                        ELSE IF frame.intraday_vol <= 15 THEN "LOW"
                        ELSE "MEDIUM"
             trend_tag == IF day_range # 0 /\ 10 * price_change >= 6 * day_range
                          THEN "TREND" ELSE "RANGE"
         IN  IF trend_tag = "TREND" /\ vol_tag \in {"HIGH", "MEDIUM"} THEN "TREND_DAY"
             ELSE IF trend_tag = "RANGE" /\ vol_tag = "HIGH" THEN "HIGH_VOLATILITY"
             ELSE IF vol_tag = "LOW" THEN "LOW_VOLATILITY"
             ELSE "RANGE_DAY"

\* lines 126-169; trend_ratio = price_change / day_range >= 0.6 is compared
\* as 10 * price_change >= 6 * day_range, trend_ratio being 0.0 when
\* day_range is 0 (lines 141-144)
compute_market_regime(frame) ==
    IF frame.bars = 0 \/ frame.bars < RegimeMinBars THEN "UNKNOWN"
    ELSE LET day_range == frame.high - frame.low
             price_change == Abs(frame.last - frame.first)
             vol_tag == IF frame.intraday_vol >= 40 THEN "HIGH"
                        ELSE IF frame.intraday_vol <= 15 THEN "LOW"
                        ELSE "MEDIUM"
             trend_tag == IF day_range # 0 /\ 10 * price_change >= 6 * day_range
                          THEN "TREND" ELSE "RANGE"
         IN  IF trend_tag = "TREND" /\ vol_tag \in {"HIGH", "MEDIUM"} THEN "TREND_DAY"
             ELSE IF trend_tag = "RANGE" /\ vol_tag = "HIGH" THEN "HIGH_VOLATILITY"
             ELSE IF vol_tag = "LOW" THEN "LOW_VOLATILITY"
             ELSE "RANGE_DAY"

(***************************************************************************)
(* sentiment_engine.py. A text is the sequence of its characters, so that  *)
(* lower() and the substring test `w in text_lower` are computed as the    *)
(* code computes them.                                                     *)
(***************************************************************************)
\* str.lower() on the letters the texts use
LowerCase ==
    [c \in {"A", "B", "D", "F", "K", "E", "G", "I", "N", "P", "Q", "R", "S"} |->
        CASE c = "A" -> "a" [] c = "B" -> "b" [] c = "D" -> "d" [] c = "F" -> "f"
          [] c = "K" -> "k" [] c = "E" -> "e" [] c = "G" -> "g" [] c = "I" -> "i"
          [] c = "N" -> "n" [] c = "P" -> "p" [] c = "Q" -> "q" [] c = "R" -> "r"
          [] c = "S" -> "s"]

Lower(text) ==
    [i \in DOMAIN text |->
        IF text[i] \in DOMAIN LowerCase THEN LowerCase[text[i]] ELSE text[i]]

\* `w in text`
Contains(w, text) ==
    \E i \in 1..(Len(text) - Len(w) + 1) : SubSeq(text, i, i + Len(w) - 1) = w

\* sentiment_engine.py: POSITIVE_WORDS
POSITIVE_WORDS ==
    <<
      <<"u", "p", "g", "r", "a", "d", "e">>,
      <<"u", "p", "g", "r", "a", "d", "e", "s">>,
      <<"b", "e", "a", "t">>,
      <<"r", "e", "c", "o", "r", "d">>,
      <<"s", "u", "r", "g", "e">>,
      <<"r", "a", "l", "l", "y">>,
      <<"p", "r", "o", "f", "i", "t">>,
      <<"p", "r", "o", "f", "i", "t", "s">>,
      <<"g", "r", "o", "w", "t", "h">>,
      <<"p", "o", "s", "i", "t", "i", "v", "e">>,
      <<"s", "t", "r", "o", "n", "g">>,
      <<"b", "e", "a", "t", " ", "e", "s", "t", "i", "m", "a", "t", "e",
        "s">>
    >>

\* sentiment_engine.py: NEGATIVE_WORDS
NEGATIVE_WORDS ==
    <<
      <<"d", "o", "w", "n", "g", "r", "a", "d", "e">>,
      <<"d", "o", "w", "n", "g", "r", "a", "d", "e", "s">>,
      <<"m", "i", "s", "s">>,
      <<"m", "i", "s", "s", "e", "d">>,
      <<"l", "o", "s", "s">>,
      <<"l", "o", "s", "s", "e", "s">>,
      <<"s", "c", "a", "m">>,
      <<"f", "r", "a", "u", "d">>,
      <<"f", "a", "l", "l">>,
      <<"d", "r", "o", "p">>,
      <<"n", "e", "g", "a", "t", "i", "v", "e">>,
      <<"p", "e", "n", "a", "l", "t", "y">>,
      <<"f", "i", "n", "e">>,
      <<"p", "r", "o", "b", "e">>,
      <<"i", "n", "v", "e", "s", "t", "i", "g", "a", "t", "i", "o", "n">>
    >>

\* sentiment_engine.py: EVENT_KEYWORDS
EVENT_KEYWORDS ==
    <<
      <<"r", "e", "s", "u", "l", "t", "s">>,
      <<"e", "a", "r", "n", "i", "n", "g", "s">>,
      <<"q", "1">>,
      <<"q", "2">>,
      <<"q", "3">>,
      <<"q", "4">>,
      <<"q", "u", "a", "r", "t", "e", "r">>,
      <<"d", "i", "v", "i", "d", "e", "n", "d">>,
      <<"b", "o", "n", "u", "s">>,
      <<"s", "p", "l", "i", "t">>,
      <<"m", "e", "r", "g", "e", "r">>,
      <<"a", "c", "q", "u", "i", "s", "i", "t", "i", "o", "n">>,
      <<"r", "b", "i">>,
      <<"p", "o", "l", "i", "c", "y">>,
      <<"c", "o", "u", "r", "t">>,
      <<"h", "e", "a", "r", "i", "n", "g">>,
      <<"o", "r", "d", "e", "r">>,
      <<"j", "u", "d", "g", "m", "e", "n", "t">>,
      <<"v", "e", "r", "d", "i", "c", "t">>
    >>

\* sentiment_engine.py: BREAKING_KEYWORDS
BREAKING_KEYWORDS ==
    <<
      <<"b", "r", "e", "a", "k", "i", "n", "g">>,
      <<"j", "u", "s", "t", " ", "i", "n">>,
      <<"l", "i", "v", "e">>,
      <<"a", "l", "e", "r", "t">>,
      <<"u", "r", "g", "e", "n", "t">>,
      <<"f", "l", "a", "s", "h">>
    >>

\* the fixed texts of lines 77 and 107
NO_NEWS_TEXT ==
    <<"N", "o", " ", "r", "e", "c", "e", "n", "t", " ", "n", "e", "w", "s",
      " ", "f", "o", "u", "n", "d", " ", "f", "o", "r", " ", "t", "h", "i",
      "s", " ", "s", "t", "o", "c", "k", ".">>

NOT_DIRECTIONAL_TEXT ==
    <<"N", "e", "w", "s", " ", "i", "s", " ", "a", "v", "a", "i", "l", "a",
      "b", "l", "e", ",", " ", "b", "u", "t", " ", "n", "o", "t", " ", "s",
      "t", "r", "o", "n", "g", "l", "y", " ", "d", "i", "r", "e", "c", "t",
      "i", "o", "n", "a", "l", ".">>

\* the headlines the news provider gives, by name: title and description
\* (a missing or None field reads as the empty text, lines 81 and 126)
News ==
    "gain" :> [title |->
            <<"P", "r", "o", "f", "i", "t", " ", "u", "p">>,
        description |->
            <<>>]
    @@ "rave" :> [title |->
            <<"R", "e", "c", "o", "r", "d", " ", "r", "a", "l", "l", "y">>,
        description |->
            <<"u", "p", "g", "r", "a", "d", "e", "s", " ", "b", "e", "a",
              "t", " ", "e", "s", "t", "i", "m", "a", "t", "e", "s", ",",
              " ", "s", "u", "r", "g", "e", " ", "i", "n", " ", "p", "r",
              "o", "f", "i", "t", "s", ",", " ", "s", "t", "r", "o", "n",
              "g", " ", "g", "r", "o", "w", "t", "h", ",", " ", "p", "o",
              "s", "i", "t", "i", "v", "e">>]
    @@ "slip" :> [title |->
            <<"P", "r", "o", "b", "e">>,
        description |->
            <<>>]
    @@ "rout" :> [title |->
            <<"F", "r", "a", "u", "d", " ", "p", "r", "o", "b", "e">>,
        description |->
            <<"d", "o", "w", "n", "g", "r", "a", "d", "e", "s", ",", " ",
              "m", "i", "s", "s", "e", "d", ",", " ", "l", "o", "s", "s",
              "e", "s", ",", " ", "s", "c", "a", "m", ",", " ", "f", "a",
              "l", "l", ",", " ", "d", "r", "o", "p", ",", " ", "n", "e",
              "g", "a", "t", "i", "v", "e", ",", " ", "p", "e", "n", "a",
              "l", "t", "y", ",", " ", "f", "i", "n", "e", ",", " ", "i",
              "n", "v", "e", "s", "t", "i", "g", "a", "t", "i", "o", "n">>]
    @@ "flash_results" :> [title |->
            <<"B", "R", "E", "A", "K", "I", "N", "G", ":", " ", "Q", "3",
              " ", "e", "a", "r", "n", "i", "n", "g", "s">>,
        description |->
            <<>>]
    @@ "payout" :> [title |->
            <<"B", "o", "a", "r", "d", " ", "m", "e", "e", "t", "s", " ",
              "o", "n", " ", "d", "i", "v", "i", "d", "e", "n", "d">>,
        description |->
            <<>>]
    @@ "quiet" :> [title |->
            <<"S", "h", "a", "r", "e", "s", " ", "s", "t", "e", "a", "d",
              "y">>,
        description |->
            <<>>]
    @@ "just_in" :> [title |->
            <<"N", "u", "m", "b", "e", "r", "s", " ", "j", "u", "s", "t">>,
        description |->
            <<"i", "n", " ", "f", "r", "o", "m", " ", "t", "h", "e", " ",
              "b", "o", "u", "r", "s", "e">>]
    @@ "delivery" :> [title |->
            <<"D", "e", "l", "i", "v", "e", "r", "y", " ", "v", "o", "l",
              "u", "m", "e", "s">>,
        description |->
            <<>>]

\* the headlines of mixed and of one-sided sentiment, and those that carry
\* event and breaking keywords
SentimentNews == {"gain", "rave", "slip", "rout"}
RiskNews == {"flash_results", "payout", "quiet", "just_in", "delivery"}

\* most headlines in a batch given to simple_sentiment_from_headlines, and
\* in one given to determine_news_risk
MaxHeadlines == 8
MaxAlerts == 3

\* lines 81-82 and 126
HeadlineText(h) == Lower(h.title \o <<" ">> \o h.description)

\* how many of `words` the text contains
Hits(words, text) == Cardinality({i \in DOMAIN words : Contains(words[i], text)})

\* lines 83-89: the score of one headline
HeadlineScore(h) ==
    LET text_lower == HeadlineText(h)
    IN  Hits(POSITIVE_WORDS, text_lower) - Hits(NEGATIVE_WORDS, text_lower)

\* lines 127-134: whether one headline sets has_event, has_breaking
HeadlineHasEvent(h) == Hits(EVENT_KEYWORDS, HeadlineText(h)) > 0
HeadlineHasBreaking(h) == Hits(BREAKING_KEYWORDS, HeadlineText(h)) > 0

\* the three above for every headline of News
ScoreOf == [name \in DOMAIN News |-> HeadlineScore(News[name])]
HasEventOf == [name \in DOMAIN News |-> HeadlineHasEvent(News[name])]
HasBreakingOf == [name \in DOMAIN News |-> HeadlineHasBreaking(News[name])]

RECURSIVE SumSeq(_)
SumSeq(s) == IF s = <<>> THEN 0 ELSE Head(s) + SumSeq(Tail(s))

Max(S) == CHOOSE x \in S : \A y \in S : x >= y

\* lines 99-104 with thresholds of 0.25
SentimentLabelQuarter(total, n, max_abs) ==
    IF 4 * total > n * max_abs THEN "POSITIVE"
    ELSE IF 4 * total < -(n * max_abs) THEN "NEGATIVE"
    ELSE "NEUTRAL"

\* lines 95-104: score_norm = (total / n) / max_abs against 0.2 and -0.2,
\* compared as 5 * total against n * max_abs (the doubles compare the same
\* way for every n up to 11 and max_abs up to 15)
SentimentLabel(total, n, max_abs) ==
    IF 5 * total > n * max_abs THEN "POSITIVE"
    ELSE IF 5 * total < -(n * max_abs) THEN "NEGATIVE"
    ELSE "NEUTRAL"

\* "; ".join(titles)
JoinTitles(titles) ==
    IF Len(titles) = 1 THEN titles[1] ELSE titles[1] \o <<";", " ">> \o titles[2]

\* lines 70-109; `headlines` are names of News; score is the fraction
\* <<numerator, denominator>> of score_norm
simple_sentiment_from_headlines(batch) ==
    IF batch = <<>>
    THEN [score |-> <<0, 1>>, label |-> "NEUTRAL", summary |-> NO_NEWS_TEXT]
    ELSE LET scores == [i \in DOMAIN batch |-> ScoreOf[batch[i]]]
             total == SumSeq(scores)
             max_abs == Max({1} \cup {Abs(scores[i]) : i \in DOMAIN scores})
             titles == [i \in DOMAIN batch |-> News[batch[i]].title]
             raw_titles == SelectSeq(titles, LAMBDA t : t # <<>>)
         IN  [score |-> <<total, Len(batch) * max_abs>>,
              label |-> SentimentLabel(total, Len(batch), max_abs),
              summary |-> IF raw_titles = <<>> THEN NOT_DIRECTIONAL_TEXT
                          ELSE JoinTitles(SubSeq(raw_titles, 1, Min({2, Len(raw_titles)})))]

\* lines 136-140 with the two tests in the other order
determine_news_risk_EventFirst(batch) ==
    IF batch = <<>> THEN "NONE"
    ELSE LET has_event == \E i \in DOMAIN batch : HasEventOf[batch[i]]
             has_breaking == \E i \in DOMAIN batch : HasBreakingOf[batch[i]]
         IN  IF has_event THEN "EVENT_RISK"
             ELSE IF has_breaking THEN "BREAKING"
             ELSE "NONE"

\* lines 112-140
determine_news_risk(batch) ==
    IF batch = <<>> THEN "NONE"
    ELSE LET has_event == \E i \in DOMAIN batch : HasEventOf[batch[i]]
             has_breaking == \E i \in DOMAIN batch : HasBreakingOf[batch[i]]
         IN  IF has_breaking THEN "BREAKING"
             ELSE IF has_event THEN "EVENT_RISK"
             ELSE "NONE"

\* no headlines classified yet
NoSentiment ==
    [score |-> <<0, 1>>, label |-> "NONE", summary |-> <<>>, news_risk_flag |-> "NONE"]

(***************************************************************************)
NiftyTrends == {"BULLISH", "BEARISH", "NEUTRAL"}
MarketRegimes ==
    {"TREND_DAY", "RANGE_DAY", "HIGH_VOLATILITY", "LOW_VOLATILITY", "UNKNOWN"}
SentimentLabels == {"POSITIVE", "NEGATIVE", "NEUTRAL"}
NewsRiskFlags == {"NONE", "EVENT_RISK", "BREAKING"}

(***************************************************************************)
(* The volume signal of an instrument's intraday frame (lines 240-251).    *)
(* A frame is its Volume column, oldest bar first; volumes are whole       *)
(* numbers (the adapter drops rows with missing cells).                    *)
(***************************************************************************)
VolumeRecentBars == 20
VolumeBaselineBars == 60

\* most bars of an intraday frame
MaxSeriesBars == 61

\* column.iloc[-k:]
LastBars(column, k) ==
    IF Len(column) <= k THEN column
    ELSE SubSeq(column, Len(column) - k + 1, Len(column))

\* volume_ratio with the baseline taken from any frame of 20 bars or more
volume_ratio_Over20(column) ==
    LET recent == LastBars(column, VolumeRecentBars)
        hist == IF Len(column) >= VolumeRecentBars
                THEN LastBars(column, VolumeBaselineBars) ELSE recent
    IN  IF SumSeq(hist) = 0 THEN <<1, 1>>
        ELSE <<SumSeq(recent) * Len(hist), SumSeq(hist) * Len(recent)>>

\* lines 240-245: volume_ratio as the fraction <<numerator, denominator>>;
\* the mean of a column is its sum over its length, and the mean of
\* volumes is 0 exactly when their sum is
volume_ratio(column) ==
    LET recent == LastBars(column, VolumeRecentBars)
        hist == IF Len(column) >= VolumeBaselineBars
                THEN LastBars(column, VolumeBaselineBars) ELSE recent
    IN  IF SumSeq(hist) = 0 THEN <<1, 1>>
        ELSE <<SumSeq(recent) * Len(hist), SumSeq(hist) * Len(recent)>>

\* lines 246-251: ratio > 1.5 is HIGH, ratio < 0.7 is LOW
VolumeSignal(column) ==
    LET ratio == volume_ratio(column)
    IN  IF 2 * ratio[1] > 3 * ratio[2] THEN "HIGH"
        ELSE IF 10 * ratio[1] < 7 * ratio[2] THEN "LOW"
        ELSE "NORMAL"

\* the frame without bars
NoBars == [Volume |-> <<>>]

\* a Volume column of n bars: `late` in the last r bars, `early` before them
StepColumn(n, r, early, late) == [i \in 1..n |-> IF i > n - r THEN late ELSE early]

\* the volumes of a bar
Volumes == {0, 1, 4}

IntradayFrames ==
    {[Volume |-> StepColumn(n, r, early, late)] :
        n \in 0..MaxSeriesBars, r \in {VolumeRecentBars, VolumeRecentBars + 5},
        early \in Volumes, late \in Volumes}

\* lines 230-234: what the loop takes from an empty intraday frame (also
\* the frame of a fetch that raised)
EmptyIntraday ==
    [last_price |-> "NaN", stock_trend |-> "SIDEWAYS",
     volume_signal |-> "UNKNOWN", volatility_label |-> "MEDIUM"]

\* lines 230-253: the features the loop can take from an intraday frame
InstrumentFeatures ==
    {EmptyIntraday} \cup
    [last_price : {"PRICE"}, stock_trend : {"UP", "DOWN", "SIDEWAYS"},
     volume_signal : {"HIGH", "NORMAL", "LOW"},
     volatility_label : {"HIGH", "MEDIUM", "LOW"}]

\* Actionable with every phase but CLOSED open to signals
ActionableUnlessClosed(status_code, market_regime) ==
    status_code # "CLOSED"

\* Actionable without the SCALP_2 rule of lines 217-218
ActionableAnyRegime(status_code, market_regime) ==
    status_code \in {"SCALP_1", "SCALP_2"}

\* lines 215-218
Actionable(status_code, market_regime) ==
    /\ status_code \in {"SCALP_1", "SCALP_2"}
    /\ ~(status_code = "SCALP_2" /\ market_regime = "LOW_VOLATILITY")

\* PredictionAction that does not look at the benchmark's trend
PredictionActionAnyBenchmark(actionable, last_price, nifty_trend, stock_trend, sentiment_label) ==
    IF actionable /\ last_price # "NaN"
    THEN IF stock_trend = "UP" /\ sentiment_label # "NEGATIVE" THEN "LONG_BIAS"
         ELSE IF stock_trend = "DOWN" /\ sentiment_label # "POSITIVE" THEN "SHORT_BIAS"
         ELSE "NO_TRADE"
    ELSE "NO_TRADE"

\* PredictionAction that does not look at the sentiment
PredictionActionNoSentiment(actionable, last_price, nifty_trend, stock_trend, sentiment_label) ==
    IF actionable /\ last_price # "NaN"
    THEN IF nifty_trend = "BULLISH" /\ stock_trend = "UP" THEN "LONG_BIAS"
         ELSE IF nifty_trend = "BEARISH" /\ stock_trend = "DOWN" THEN "SHORT_BIAS"
         ELSE "NO_TRADE"
    ELSE "NO_TRADE"

\* lines 261-269
PredictionAction(actionable, last_price, nifty_trend, stock_trend, sentiment_label) ==
    IF actionable /\ last_price # "NaN"
    THEN IF /\ nifty_trend = "BULLISH"
            /\ stock_trend = "UP"
            /\ sentiment_label # "NEGATIVE"
         THEN "LONG_BIAS"
         ELSE IF /\ nifty_trend = "BEARISH"
                 /\ stock_trend = "DOWN"
                 /\ sentiment_label # "POSITIVE"
         THEN "SHORT_BIAS"
         ELSE "NO_TRADE"
    ELSE "NO_TRADE"

\* lines 273-287
TrendComponent(prediction_action, nifty_trend, stock_trend) ==
    IF prediction_action = "LONG_BIAS"
    THEN IF nifty_trend = "BULLISH" /\ stock_trend = "UP" THEN 10
         ELSE IF nifty_trend \in {"BULLISH", "NEUTRAL"} /\ stock_trend = "UP" THEN 7
         ELSE 3
    ELSE IF prediction_action = "SHORT_BIAS"
    THEN IF nifty_trend = "BEARISH" /\ stock_trend = "DOWN" THEN 10
         ELSE IF nifty_trend \in {"BEARISH", "NEUTRAL"} /\ stock_trend = "DOWN" THEN 7
         ELSE 3
    ELSE 0

\* VolumeComponent that gives a LOW volume nothing
VolumeComponentLowAsNothing(volume_signal) ==
    IF volume_signal = "HIGH" THEN 10
    ELSE IF volume_signal = "NORMAL" THEN 7
    ELSE IF volume_signal = "LOW" THEN 0
    ELSE 5

\* VolumeComponent that scores a NORMAL volume like an unknown one
VolumeComponentNormalAsUnknown(volume_signal) ==
    IF volume_signal = "HIGH" THEN 10
    ELSE IF volume_signal = "LOW" THEN 3
    ELSE 5

\* lines 290-297
VolumeComponent(volume_signal) ==
    IF volume_signal = "HIGH" THEN 10
    ELSE IF volume_signal = "NORMAL" THEN 7
    ELSE IF volume_signal = "LOW" THEN 3
    ELSE 5

\* lines 300-315
SentimentComponent(prediction_action, sentiment_label) ==
    IF prediction_action = "LONG_BIAS"
    THEN IF sentiment_label = "POSITIVE" THEN 10
         ELSE IF sentiment_label = "NEUTRAL" THEN 7
         ELSE 3
    ELSE IF prediction_action = "SHORT_BIAS"
    THEN IF sentiment_label = "NEGATIVE" THEN 10
         ELSE IF sentiment_label = "NEUTRAL" THEN 7
         ELSE 3
    ELSE 5

\* lines 318-323
VolatilityComponent(volatility_label) ==
    IF volatility_label = "HIGH" THEN 10
    ELSE IF volatility_label = "MEDIUM" THEN 8
    ELSE 4

\* RegimeFactor that dampens LOW_VOLATILITY like RANGE_DAY
RegimeFactorLowAsRange(market_regime) ==
    IF market_regime \in {"RANGE_DAY", "LOW_VOLATILITY"} THEN 7
    ELSE 10

\* lines 337-340: the regime factor in tenths (10: the score is not multiplied)
RegimeFactor(market_regime) ==
    IF market_regime = "RANGE_DAY" THEN 7
    ELSE IF market_regime = "LOW_VOLATILITY" THEN 6
    ELSE 10

\* The component and factor combinations <<trend, volume, sentiment,
\* volatility, factor>> whose weighted and dampened sum is a decimal tie
\* (x.xx5) and whose double, as lines 329-340 compute it, lies above the tie,
\* so that round(x, 2) goes up; for every other tie the double lies below.
TieRoundsUp ==
    {
     <<10, 7, 10, 10, 10>>, <<10, 7, 10, 10, 6>>, <<10, 7, 10, 8, 10>>,
     <<10, 7, 10, 8, 6>>, <<10, 7, 10, 4, 10>>, <<10, 5, 10, 10, 10>>,
     <<10, 5, 10, 10, 6>>, <<10, 5, 3, 8, 10>>, <<10, 3, 7, 10, 10>>,
     <<10, 3, 7, 8, 10>>, <<10, 3, 3, 10, 10>>, <<10, 3, 3, 8, 10>>,
     <<10, 3, 3, 4, 10>>, <<7, 7, 7, 10, 10>>, <<7, 7, 7, 8, 10>>,
     <<7, 7, 7, 8, 6>>, <<7, 7, 7, 4, 6>>, <<7, 7, 3, 10, 10>>,
     <<7, 7, 3, 8, 10>>, <<7, 7, 3, 4, 10>>, <<7, 5, 7, 8, 10>>,
     <<7, 5, 7, 8, 6>>, <<7, 5, 3, 10, 10>>, <<7, 3, 10, 8, 10>>,
     <<7, 3, 7, 8, 6>>, <<3, 7, 10, 10, 10>>, <<3, 7, 10, 8, 10>>,
     <<3, 7, 10, 4, 10>>, <<3, 7, 7, 10, 10>>, <<3, 7, 7, 4, 10>>,
     <<3, 7, 3, 8, 10>>, <<3, 7, 3, 8, 6>>, <<3, 7, 3, 4, 10>>,
     <<3, 7, 3, 4, 6>>, <<3, 5, 10, 10, 10>>, <<3, 5, 10, 4, 10>>,
     <<3, 5, 3, 10, 10>>, <<3, 5, 3, 10, 6>>, <<3, 5, 3, 8, 10>>,
     <<3, 5, 3, 8, 6>>, <<3, 5, 3, 4, 10>>, <<3, 3, 3, 8, 6>>
    }

\* line 346: round(x, 2) of the double for x ten-thousandths
Round2(x, components) ==
    IF x % 100 > 50 \/ (x % 100 = 50 /\ components \in TieRoundsUp)
    THEN x \div 100 + 1
    ELSE x \div 100

\* OverallConfidence that caps the weighted sum before the regime dampening
OverallConfidenceCapFirst(prediction_action, actionable, trend_component, volume_component, sentiment_component, volatility_component, market_regime, news_risk_flag) ==
    LET weighted == IF prediction_action = "NO_TRADE" \/ ~actionable THEN 0
                    ELSE 30 * trend_component + 25 * volume_component
                           + 20 * sentiment_component + 25 * volatility_component
        capped == IF news_risk_flag \in {"EVENT_RISK", "BREAKING"} /\ weighted > 600
                  THEN 600 ELSE weighted
    IN  Round2(capped * RegimeFactor(market_regime),
               <<trend_component, volume_component, sentiment_component,
                 volatility_component, RegimeFactor(market_regime)>>)

\* OverallConfidence that weighs the components whatever the action
OverallConfidenceAlwaysWeighted(prediction_action, actionable, trend_component, volume_component, sentiment_component, volatility_component, market_regime, news_risk_flag) ==
    LET weighted == 30 * trend_component + 25 * volume_component
                      + 20 * sentiment_component + 25 * volatility_component
        dampened == weighted * RegimeFactor(market_regime)
        capped == IF news_risk_flag \in {"EVENT_RISK", "BREAKING"} /\ dampened > 6000
                  THEN 6000 ELSE dampened
    IN  Round2(capped, <<trend_component, volume_component, sentiment_component,
                         volatility_component, RegimeFactor(market_regime)>>)

\* lines 326-346: the overall confidence in hundredths
OverallConfidence(prediction_action, actionable, trend_component, volume_component, sentiment_component, volatility_component, market_regime, news_risk_flag) ==
    LET weighted == IF prediction_action = "NO_TRADE" \/ ~actionable THEN 0
                    ELSE 30 * trend_component + 25 * volume_component
                           + 20 * sentiment_component + 25 * volatility_component
        dampened == weighted * RegimeFactor(market_regime)
        capped == IF news_risk_flag \in {"EVENT_RISK", "BREAKING"} /\ dampened > 6000
                  THEN 6000 ELSE dampened
    IN  Round2(capped, <<trend_component, volume_component, sentiment_component,
                         volatility_component, RegimeFactor(market_regime)>>)

\* lines 349-356
ConfidenceLevelLabel(overall_confidence) ==
    IF overall_confidence >= 70 THEN "High"
    ELSE IF overall_confidence >= 40 THEN "Medium"
    ELSE IF overall_confidence > 0 THEN "Low"
    ELSE "Very Low or No Trade"

\* lines 220-428: the record one pass of the loop appends to results
PredictionRecord(status_code, nifty_trend, market_regime, features, sentiment_label, news_risk_flag) ==
    LET actionable == Actionable(status_code, market_regime)
        prediction_action ==
            PredictionAction(actionable, features.last_price, nifty_trend,
                             features.stock_trend, sentiment_label)
        trend_component ==
            TrendComponent(prediction_action, nifty_trend, features.stock_trend)
        volume_component == VolumeComponent(features.volume_signal)
        sentiment_component == SentimentComponent(prediction_action, sentiment_label)
        volatility_component == VolatilityComponent(features.volatility_label)
        overall_confidence ==
            OverallConfidence(prediction_action, actionable, trend_component,
                              volume_component, sentiment_component,
                              volatility_component, market_regime, news_risk_flag)
    IN  [nifty_trend |-> nifty_trend,
         stock_short_trend |-> features.stock_trend,
         market_regime |-> market_regime,
         prediction_action |-> prediction_action,
         confidence_score |-> overall_confidence,
         confidence_level_label |-> ConfidenceLevelLabel(overall_confidence),
         confidence_trend |-> trend_component * 10,
         confidence_volume |-> volume_component * 10,
         confidence_sentiment |-> sentiment_component * 10,
         confidence_volatility |-> volatility_component * 10,
         price_at_prediction |-> features.last_price,
         volume_signal |-> features.volume_signal,
         sentiment_label |-> sentiment_label,
         news_risk_flag |-> news_risk_flag,
         status_code |-> status_code]

VARIABLES
    journal,        \* rows of prediction_journal.csv
    store_state,    \* "missing" until the file is first written, then "ok"
    pc,             \* "idle", or "returned" right after a call of upsert_predictions
    before,         \* rows of the file when that call began
    new_preds,      \* the frame that call was given
    calls,          \* per app session: its upsert_predictions call in steps
    now_ist,        \* time of day read by get_ist_now()
    status_code,    \* get_time_status(now_ist)["code"], "NONE" before it is computed
    nifty_trend,    \* answer of get_nifty_trend_daily() in this cycle
    market_regime,  \* compute_market_regime(nifty_intraday) in this cycle
    appended,       \* <<record>> appended to results by the latest pass of the loop
    features,       \* what the latest pass took from the row's intraday frame
    today,          \* get_ist_now().date(), a midnight of DateCells' scale
    watchlist,      \* active_watchlist.csv: its two dates and the tickers
    ran,            \* per 15-minute window: the latest cycle's rows, cycles run
    nifty_intraday, \* the benchmark's intraday frame given to compute_market_regime
    headlines,      \* the batch of headlines (names of News) given to the classifiers
    sentiment,      \* their results: score, label, summary and news_risk_flag
    feed,           \* what the adapters answer in this cycle when they do not raise
    gen,            \* generate_predictions_for_watchlist in steps: position, results
    intraday_df     \* the intraday frame of the watchlist row being scored

journal_vars == <<journal, store_state, pc, before, new_preds>>
engine_vars == <<now_ist, status_code, nifty_trend, market_regime, appended>>
feed_vars == <<nifty_intraday, headlines, sentiment, feed, gen, intraday_df>>
more_vars == <<features, today, watchlist, ran, feed_vars>>
vars == <<journal, store_state, pc, before, new_preds, calls,
          now_ist, status_code, nifty_trend, market_regime, appended, more_vars>>

NoFrame == [columns |-> KEY_COLUMNS, rows |-> <<>>]

\* most cycles followed within one 15-minute window
MaxCyclesPerWindow == 2

\* the days on which cycles run, as midnights of DateCells' scale
FirstDay == 2
NextDay == FirstDay + 2

\* the moments <<day, time of day>> at which the page is rendered: three in
\* two neighbouring windows of SCALP_1, one after the close, one the next day
CyclePoints ==
    {<<FirstDay, Clock(10, 0)>>, <<FirstDay, Clock(10, 14) + 1>>,
     <<FirstDay, Clock(10, 15)>>, <<FirstDay, Clock(15, 31)>>,
     <<NextDay, Clock(10, 0)>>}

\* the 15-minute window of a moment: the day and the count of whole windows
\* since midnight
WindowOf(day, t) == <<day, t \div (PREDICTION_TIME_BUCKET_MINUTES * TicksPerMinute)>>

Windows == {WindowOf(p[1], p[2]) : p \in CyclePoints}

NoRuns == [w \in Windows |-> [rows |-> <<>>, cycles |-> 0]]

\* the ticker columns the screener can save
Watchlists == {<<"A">>, <<"B">>, <<"A", "B">>}

\* the regimes compute_market_regime gives the cycles
CycleRegimes == {"TREND_DAY", "RANGE_DAY"}

\* nothing fetched from the adapters yet
NoNews ==
    /\ headlines = <<>>
    /\ sentiment = NoSentiment

\* no call of generate_predictions_for_watchlist under way in steps
NoGenerate ==
    /\ feed = [nifty_trend |-> "NEUTRAL", benchmark |-> EmptyBenchmark,
               intraday |-> [t \in TickerCells |-> EmptyIntraday],
               news |-> [t \in TickerCells |-> <<>>]]
    /\ gen = [pc |-> "idle", row |-> 0, results |-> <<>>, raised |-> {}]

NoFeed ==
    /\ nifty_intraday = EmptyBenchmark
    /\ intraday_df = NoBars
    /\ NoNews
    /\ NoGenerate

\* nothing evaluated, fetched or classified yet
NoMore ==
    /\ features = EmptyIntraday
    /\ today = FirstDay
    /\ watchlist = [selection_date |-> FirstDay, usable_for_date |-> FirstDay, tickers |-> <<>>]
    /\ ran = NoRuns
    /\ NoFeed

\* the app sessions (each browser session runs main() on its own thread)
Sessions == {1, 2}

NoCalls ==
    [s \in Sessions |-> [pc |-> "start", new_preds |-> NoFrame, journal_df |-> <<>>]]

\* no call of upsert_predictions under way
NoUpsert ==
    /\ pc = "idle"
    /\ before = <<>>
    /\ new_preds = NoFrame
    /\ calls = NoCalls

\* no evaluation cycle under way
NoCycle ==
    /\ now_ist = 0
    /\ status_code = "NONE"
    /\ nifty_trend = "NEUTRAL"
    /\ market_regime = "UNKNOWN"
    /\ appended = <<>>

(***************************************************************************)
(* Spec: callers upsert frames into a journal that starts out missing.     *)
(***************************************************************************)
\* upsert_predictions(df) on the file; a non-empty frame has the file created
\* when it is missing (ensure_prediction_journal_exists) and then saved
UpsertPredictions(df) ==
    /\ journal' = UpsertResult(journal, df)
    /\ store_state' = IF IsEmpty(df) THEN store_state ELSE "ok"

Init ==
    /\ journal = <<>>
    /\ store_state = "missing"
    /\ NoUpsert
    /\ NoCycle
    /\ NoMore

\* a caller runs upsert_predictions(df) to completion
Upsert ==
    /\ pc = "idle"
    /\ \E df \in Frames :
          /\ new_preds' = df
          /\ UpsertPredictions(df)
    /\ before' = journal
    /\ pc' = "returned"
    /\ UNCHANGED <<calls, engine_vars, more_vars>>

\* the call's frame and loaded copy go out of scope
Return ==
    /\ pc = "returned"
    /\ pc' = "idle"
    /\ before' = <<>>
    /\ new_preds' = NoFrame
    /\ UNCHANGED <<journal, store_state, calls, engine_vars, more_vars>>

Next == Upsert \/ Return

Spec == Init /\ [][Next]_vars

(***************************************************************************)
(* SpecAnyStore: the same callers, on a journal file with any prior        *)
(* contents, rows sharing a key included.                                  *)
(***************************************************************************)
InitAnyStore ==
    /\ journal \in SeqUpTo(JournalRows, MaxRows)
    /\ store_state = "ok"
    /\ NoUpsert
    /\ NoCycle
    /\ NoMore

SpecAnyStore == InitAnyStore /\ [][Next]_vars

(***************************************************************************)
(* SpecConc: two sessions inside upsert_predictions at once. The function  *)
(* holds no lock: between its load (line 70) and its save (line 99) the    *)
(* other session may load or save.                                         *)
(***************************************************************************)
\* upsert_predictions of session s with an empty frame: returns at line 68
SkipEmpty(s) ==
    /\ calls[s].pc = "start"
    /\ \E df \in Frames :
          /\ IsEmpty(df)
          /\ calls' = [calls EXCEPT ![s] = [@ EXCEPT !.pc = "done", !.new_preds = df]]
    /\ UNCHANGED <<journal_vars, engine_vars, more_vars>>

\* line 70: session s reads the file into its journal_df (the file is
\* created when missing)
Load(s) ==
    /\ calls[s].pc = "start"
    /\ \E df \in Frames :
          /\ ~IsEmpty(df)
          /\ calls' = [calls EXCEPT ![s] =
                 [pc |-> "loaded", new_preds |-> df,
                  journal_df |-> LoadPredictionJournal(journal)]]
    /\ store_state' = "ok"
    /\ UNCHANGED <<journal, pc, before, new_preds, engine_vars, more_vars>>

\* lines 72-99: session s merges its frame into its journal_df, drops
\* duplicates and writes the whole frame over the file
Save(s) ==
    /\ calls[s].pc = "loaded"
    /\ journal' = Merged(calls[s].journal_df, calls[s].new_preds)
    /\ calls' = [calls EXCEPT ![s] = [@ EXCEPT !.pc = "done"]]
    /\ UNCHANGED <<store_state, pc, before, new_preds, engine_vars, more_vars>>

NextConc == \E s \in Sessions : SkipEmpty(s) \/ Load(s) \/ Save(s)

SpecConc == Init /\ [][NextConc]_vars

(***************************************************************************)
(* SpecClock: the session clock read at any time of day.                   *)
(***************************************************************************)
InitClock ==
    /\ journal = <<>>
    /\ store_state = "missing"
    /\ NoUpsert
    /\ now_ist \in TimesOfDay
    /\ status_code = "NONE"
    /\ nifty_trend = "NEUTRAL"
    /\ market_regime = "UNKNOWN"
    /\ appended = <<>>
    /\ NoMore

\* lines 198-200 (and app.py 82-83): the status of the time read
ReadStatus ==
    /\ status_code = "NONE"
    /\ status_code' = get_time_status(now_ist)
    /\ UNCHANGED <<journal_vars, calls, now_ist, nifty_trend, market_regime, appended, more_vars>>

SpecClock == InitClock /\ [][ReadStatus]_vars

(***************************************************************************)
(* SpecScore: one evaluation cycle of generate_predictions_for_watchlist.  *)
(* The time read, the benchmark trend and the regime are fixed for the     *)
(* cycle; every pass of the loop scores one watchlist row.                 *)
(***************************************************************************)
\* the times at which cycles are evaluated: the edges of every phase
EvalTimes ==
    {Clock(9, 14), Clock(9, 15), Clock(9, 59), Clock(10, 0), Clock(11, 29),
     Clock(11, 30), Clock(13, 29), Clock(13, 30), Clock(14, 44), Clock(14, 45),
     Clock(15, 30), Clock(15, 30) + 1, Clock(15, 31)}

InitScore ==
    /\ journal = <<>>
    /\ store_state = "missing"
    /\ NoUpsert
    /\ now_ist \in EvalTimes
    /\ status_code = "NONE"
    /\ nifty_trend \in NiftyTrends
    /\ market_regime \in MarketRegimes
    /\ appended = <<>>
    /\ NoMore

\* lines 220-428: one pass of the loop, for a watchlist row whose intraday
\* frame gives `features` and whose headlines give the sentiment and risk
ScoreRow ==
    /\ status_code # "NONE"
    /\ appended = <<>>
    /\ \E intraday \in InstrumentFeatures, sentiment_label \in SentimentLabels,
          news_risk_flag \in NewsRiskFlags :
          /\ features' = intraday
          /\ appended' = <<PredictionRecord(status_code, nifty_trend, market_regime,
                                            intraday, sentiment_label, news_risk_flag)>>
    /\ UNCHANGED <<journal_vars, calls, now_ist, status_code, nifty_trend, market_regime>>
    /\ UNCHANGED <<today, watchlist, ran, feed_vars>>

\* line 220: the loop moves on to the next watchlist row
NextRow ==
    /\ appended # <<>>
    /\ appended' = <<>>
    /\ features' = EmptyIntraday
    /\ UNCHANGED <<journal_vars, calls, now_ist, status_code, nifty_trend, market_regime>>
    /\ UNCHANGED <<today, watchlist, ran, feed_vars>>

NextScore == ReadStatus \/ ScoreRow \/ NextRow

SpecScore == InitScore /\ [][NextScore]_vars

(***************************************************************************)
(* SpecCycle: the page is rendered again and again (app.py main): each     *)
(* rendering outside CLOSED evaluates today's watchlist and upserts the     *)
(* records. The screener saves the same tickers whenever it runs.          *)
(***************************************************************************)
InitCycle ==
    /\ journal = <<>>
    /\ store_state = "missing"
    /\ NoUpsert
    /\ now_ist = Clock(10, 0)
    /\ status_code = "NONE"
    /\ nifty_trend = "BULLISH"
    /\ market_regime = "UNKNOWN"
    /\ appended = <<>>
    /\ features = EmptyIntraday
    /\ today = FirstDay
    /\ watchlist \in [selection_date : {FirstDay}, usable_for_date : {FirstDay}, tickers : Watchlists]
    /\ ran = NoRuns
    /\ NoFeed

\* time passes to a later moment
Tick ==
    /\ \E p \in CyclePoints :
          /\ p[1] > today \/ (p[1] = today /\ p[2] > now_ist)
          /\ today' = p[1]
          /\ now_ist' = p[2]
    /\ UNCHANGED <<journal_vars, calls, status_code, nifty_trend, market_regime,
                   appended, features, watchlist, ran, feed_vars>>

\* nightly_screener.py lines 116-122: the screener saves `tickers` as the
\* watchlist usable today
RunScreener(tickers) ==
    /\ watchlist' = [selection_date |-> today, usable_for_date |-> today,
                     tickers |-> tickers]
    /\ UNCHANGED <<journal_vars, calls, engine_vars, features, today, ran, feed_vars>>

\* watchlist.py lines 9-21: the rows of the watchlist usable today
load_today_watchlist ==
    IF watchlist.usable_for_date = today THEN watchlist.tickers ELSE <<>>

\* the intraday frame, sentiment and risk the adapters give the cycles
CycleIntraday ==
    [last_price |-> "PRICE", stock_trend |-> "UP",
     volume_signal |-> "HIGH", volatility_label |-> "HIGH"]

\* prediction_engine.py lines 185-430: one record per watchlist row, all with
\* the date and bucket of the time read and the regime of the cycle
generate_predictions_for_watchlist(tickers, regime) ==
    [columns |-> PREDICTION_COLUMNS,
     rows |-> [i \in 1..Len(tickers) |->
        [date |-> today,
         time_bucket |-> floor_time_to_bucket(now_ist, PREDICTION_TIME_BUCKET_MINUTES),
         ticker |-> tickers[i],
         prediction_action |->
            PredictionRecord(get_time_status(now_ist), nifty_trend, regime,
                             CycleIntraday, "NEUTRAL", "NONE").prediction_action,
         market_regime |-> regime,
         status_code |-> get_time_status(now_ist)]]]

\* app.py lines 82-142: one rendering of the page that generates and upserts
Cycle ==
    /\ get_time_status(now_ist) # "CLOSED"
    /\ load_today_watchlist # <<>>
    /\ ran[WindowOf(today, now_ist)].cycles < MaxCyclesPerWindow
    /\ \E regime \in CycleRegimes :
          LET df == generate_predictions_for_watchlist(load_today_watchlist, regime)
          IN  /\ UpsertPredictions(df)
              /\ ran' = [ran EXCEPT ![WindowOf(today, now_ist)] =
                            [rows |-> df.rows, cycles |-> @.cycles + 1]]
    /\ UNCHANGED <<pc, before, new_preds, calls, engine_vars, features, today, watchlist,
                   feed_vars>>

NextCycle == Tick \/ Cycle \/ RunScreener(watchlist.tickers)

SpecCycle == InitCycle /\ [][NextCycle]_vars

(***************************************************************************)
(* SpecWatch: as SpecCycle, with a screener that may save any tickers.     *)
(***************************************************************************)
NextWatch == Tick \/ Cycle \/ \E tickers \in Watchlists : RunScreener(tickers)

SpecWatch == InitCycle /\ [][NextWatch]_vars

(***************************************************************************)
(* SpecVolume: passes of the loop over rows whose intraday frame is        *)
(* intraday_df.                                                            *)
(***************************************************************************)
\* lines 230-253: the features the loop takes from a frame; the trend and
\* the volatility label come from its prices
ExtractFeatures(df) ==
    IF df.Volume = <<>> THEN {EmptyIntraday}
    ELSE {f \in InstrumentFeatures \ {EmptyIntraday} :
             f.volume_signal = VolumeSignal(df.Volume)}

InitVolume ==
    /\ journal = <<>>
    /\ store_state = "missing"
    /\ NoUpsert
    /\ now_ist = Clock(10, 0)
    /\ status_code = "NONE"
    /\ nifty_trend \in NiftyTrends
    /\ market_regime = "TREND_DAY"
    /\ appended = <<>>
    /\ features = EmptyIntraday
    /\ today = FirstDay
    /\ watchlist = [selection_date |-> FirstDay, usable_for_date |-> FirstDay, tickers |-> <<>>]
    /\ ran = NoRuns
    /\ nifty_intraday = EmptyBenchmark
    /\ NoNews
    /\ NoGenerate
    /\ intraday_df \in IntradayFrames

\* lines 220-428: one pass of the loop for the row of intraday_df
ScoreSeries ==
    /\ status_code # "NONE"
    /\ appended = <<>>
    /\ \E f \in ExtractFeatures(intraday_df) :
          /\ features' = f
          /\ appended' = <<PredictionRecord(status_code, nifty_trend, market_regime,
                                            f, "NEUTRAL", "NONE")>>
    /\ UNCHANGED <<journal_vars, calls, now_ist, status_code, nifty_trend, market_regime>>
    /\ UNCHANGED <<today, watchlist, ran, feed_vars>>

NextVolume == ReadStatus \/ ScoreSeries \/ NextRow

SpecVolume == InitVolume /\ [][NextVolume]_vars

(***************************************************************************)
(* SpecStore: upsert_predictions and load_prediction_journal on a file     *)
(* that is missing, readable, or unreadable (store_state "corrupt", the    *)
(* rows then being what the bytes once held).                              *)
(***************************************************************************)
\* ensure_prediction_journal_exists that takes an unreadable file for a
\* missing one
ensure_prediction_journal_exists_Lenient(state, file_rows) ==
    IF state = "ok"
    THEN [raised |-> FALSE, rows |-> file_rows, state |-> "ok"]
    ELSE [raised |-> FALSE, rows |-> <<>>, state |-> "ok"]

\* journal.py lines 38-47: a missing file is created with the header alone,
\* pd.read_csv raises on a file it cannot read
ensure_prediction_journal_exists(state, file_rows) ==
    IF state = "missing"
    THEN [raised |-> FALSE, rows |-> <<>>, state |-> "ok"]
    ELSE IF state = "corrupt"
    THEN [raised |-> TRUE, rows |-> <<>>, state |-> state]
    ELSE [raised |-> FALSE, rows |-> file_rows, state |-> "ok"]

InitStore ==
    /\ \/ store_state = "missing" /\ journal = <<>>
       \/ store_state \in {"ok", "corrupt"} /\ journal \in SeqUpTo(JournalRows, MaxRows)
    /\ NoUpsert
    /\ NoCycle
    /\ NoMore

\* journal.py lines 63-99: upsert_predictions(df); the exception of the read
\* at line 70 leaves the function before anything is written
UpsertOrRaise ==
    /\ pc = "idle"
    /\ before' = journal
    /\ \E df \in Frames :
          LET read == ensure_prediction_journal_exists(store_state, journal)
          IN  /\ new_preds' = df
              /\ IF IsEmpty(df)
                 THEN pc' = "returned" /\ UNCHANGED <<journal, store_state>>
                 ELSE IF read.raised
                 THEN pc' = "raised" /\ UNCHANGED <<journal, store_state>>
                 ELSE /\ pc' = "returned"
                      /\ journal' = Merged(LoadPredictionJournal(read.rows), df)
                      /\ store_state' = read.state
    /\ UNCHANGED <<calls, engine_vars, more_vars>>

\* journal.py lines 50-56: load_prediction_journal(); new_preds holds the
\* frame it returns
LoadOrRaise ==
    /\ pc = "idle"
    /\ before' = journal
    /\ LET read == ensure_prediction_journal_exists(store_state, journal)
       IN  IF read.raised
           THEN pc' = "raised" /\ UNCHANGED <<journal, store_state, new_preds>>
           ELSE /\ pc' = "loaded"
                /\ new_preds' = [columns |-> PREDICTION_COLUMNS,
                                 rows |-> LoadPredictionJournal(read.rows)]
                /\ journal' = read.rows
                /\ store_state' = read.state
    /\ UNCHANGED <<calls, engine_vars, more_vars>>

\* the call is over, by return or by exception
Unwind ==
    /\ pc # "idle"
    /\ pc' = "idle"
    /\ before' = <<>>
    /\ new_preds' = NoFrame
    /\ UNCHANGED <<journal, store_state, calls, engine_vars, more_vars>>

NextStore == UpsertOrRaise \/ LoadOrRaise \/ Unwind

SpecStore == InitStore /\ [][NextStore]_vars

(***************************************************************************)
(* SpecGate: one rendering of the page in two steps, the clock read of     *)
(* app.py lines 82-83 and the rest of main with the clock read of          *)
(* generate_predictions_for_watchlist (lines 198-200); time may pass in    *)
(* between. Cycle is the rendering whose two reads give the same time.     *)
(***************************************************************************)
\* the later moments of the day at which a clock is read
GateTimes == {Clock(10, 15), Clock(15, 30), Clock(15, 30) + 1}

\* time passes to a later moment of the day
Pass ==
    /\ \E t \in GateTimes : t > now_ist /\ now_ist' = t
    /\ UNCHANGED <<journal_vars, calls, status_code, nifty_trend, market_regime,
                   appended, more_vars>>

\* app.py lines 120-142 after the status was read: unless that status is
\* CLOSED or today's watchlist is empty, the records are generated, with
\* the time generate_predictions_for_watchlist reads itself, and upserted
Evaluate ==
    /\ status_code # "NONE"
    /\ status_code' = "NONE"
    /\ IF status_code = "CLOSED" \/ load_today_watchlist = <<>>
       THEN UNCHANGED <<journal, store_state>>
       ELSE UpsertPredictions(
                generate_predictions_for_watchlist(load_today_watchlist, "TREND_DAY"))
    /\ UNCHANGED <<pc, before, new_preds, calls, now_ist, nifty_trend, market_regime,
                   appended, more_vars>>

NextGate == ReadStatus \/ Pass \/ Evaluate

SpecGate == InitCycle /\ [][NextGate]_vars

(***************************************************************************)
(* SpecRegime: compute_market_regime classifies a benchmark frame.         *)
(***************************************************************************)
InitRegime ==
    /\ journal = <<>>
    /\ store_state = "missing"
    /\ NoUpsert
    /\ now_ist = 0
    /\ status_code = "NONE"
    /\ nifty_trend = "NEUTRAL"
    /\ market_regime = "NONE"
    /\ appended = <<>>
    /\ features = EmptyIntraday
    /\ today = FirstDay
    /\ watchlist = [selection_date |-> FirstDay, usable_for_date |-> FirstDay, tickers |-> <<>>]
    /\ ran = NoRuns
    /\ intraday_df = NoBars
    /\ nifty_intraday \in BenchmarkFrames
    /\ NoNews
    /\ NoGenerate

\* prediction_engine.py line 212
ClassifyRegime ==
    /\ market_regime = "NONE"
    /\ market_regime' = compute_market_regime(nifty_intraday)
    /\ UNCHANGED <<journal_vars, calls, now_ist, status_code, nifty_trend, appended,
                   features, today, watchlist, ran, intraday_df, nifty_intraday, headlines,
                   sentiment, feed, gen>>

SpecRegime == InitRegime /\ [][ClassifyRegime]_vars

(***************************************************************************)
(* SpecSentiment and SpecRisk: the two classifiers of sentiment_engine.py  *)
(* applied to a batch of headlines (prediction_engine.py lines 256-258).   *)
(***************************************************************************)
\* nothing but the headlines is there
NoEngine ==
    /\ journal = <<>>
    /\ store_state = "missing"
    /\ NoUpsert
    /\ NoCycle
    /\ features = EmptyIntraday
    /\ today = FirstDay
    /\ watchlist = [selection_date |-> FirstDay, usable_for_date |-> FirstDay, tickers |-> <<>>]
    /\ ran = NoRuns
    /\ intraday_df = NoBars
    /\ nifty_intraday = EmptyBenchmark
    /\ NoGenerate

InitSentiment ==
    /\ NoEngine
    /\ headlines \in SeqUpTo(SentimentNews, MaxHeadlines)
    /\ sentiment = NoSentiment

InitRisk ==
    /\ NoEngine
    /\ headlines \in SeqUpTo(RiskNews, MaxAlerts)
    /\ sentiment = NoSentiment

\* prediction_engine.py lines 257-258
ClassifyNews ==
    /\ sentiment.label = "NONE"
    /\ sentiment' =
          [score |-> simple_sentiment_from_headlines(headlines).score,
           label |-> simple_sentiment_from_headlines(headlines).label,
           summary |-> simple_sentiment_from_headlines(headlines).summary,
           news_risk_flag |-> determine_news_risk(headlines)]
    /\ UNCHANGED <<journal_vars, calls, engine_vars, features, today, watchlist, ran, intraday_df,
                   nifty_intraday, headlines, feed, gen>>

SpecSentiment == InitSentiment /\ [][ClassifyNews]_vars

SpecRisk == InitRisk /\ [][ClassifyNews]_vars

(***************************************************************************)
(* SpecAdapters: generate_predictions_for_watchlist in steps, one step per *)
(* call of an adapter; every call either answers what `feed` holds or      *)
(* raises.                                                                 *)
(***************************************************************************)
\* what the market data and news adapters can answer
FeedFrames ==
    {EmptyBenchmark,
     [bars |-> RegimeMinBars, first |-> 100, last |-> 105, low |-> 100,
      high |-> 105, intraday_vol |-> 16]}

FeedBatches == {<<>>, <<"gain">>, <<"flash_results">>}

Feeds ==
    [nifty_trend : {"BULLISH", "NEUTRAL"}, benchmark : FeedFrames,
     intraday : [TickerCells -> {EmptyIntraday, CycleIntraday}],
     news : [TickerCells -> FeedBatches]]

InitAdapters ==
    /\ journal = <<>>
    /\ store_state = "missing"
    /\ NoUpsert
    /\ now_ist = Clock(10, 0)
    /\ status_code = "NONE"
    /\ nifty_trend = "NEUTRAL"
    /\ market_regime = "UNKNOWN"
    /\ appended = <<>>
    /\ features = EmptyIntraday
    /\ today = FirstDay
    /\ watchlist \in [selection_date : {FirstDay}, usable_for_date : {FirstDay}, tickers : Watchlists \cup {<<>>}]
    /\ ran = NoRuns
    /\ intraday_df = NoBars
    /\ nifty_intraday = EmptyBenchmark
    /\ NoNews
    /\ feed \in Feeds
    /\ gen = [pc |-> "idle", row |-> 0, results |-> <<>>, raised |-> {}]

\* the exception of a call leaves generate_predictions_for_watchlist
Raise(call) == gen' = [gen EXCEPT !.pc = "raised", !.raised = @ \cup {call}]

\* the exception of a call is caught by the except around it
Caught(call, raises) == IF raises THEN gen.raised \cup {call} ELSE gen.raised

\* lines 195-202: the empty watchlist returns at once, otherwise the clock
\* is read
Begin ==
    /\ gen.pc = "idle"
    /\ IF watchlist.tickers = <<>>
       THEN gen' = [gen EXCEPT !.pc = "returned"] /\ UNCHANGED status_code
       ELSE /\ gen' = [gen EXCEPT !.pc = "daily_trend"]
            /\ status_code' = get_time_status(now_ist)
    /\ UNCHANGED <<journal_vars, calls, now_ist, nifty_trend, market_regime, appended,
                   features, today, watchlist, ran, intraday_df, nifty_intraday, headlines,
                   sentiment, feed>>

\* line 205: get_nifty_trend_daily(), outside every try
FetchDailyTrend(raises) ==
    /\ gen.pc = "daily_trend"
    /\ IF raises
       THEN Raise(<<"get_nifty_trend_daily", "">>) /\ UNCHANGED nifty_trend
       ELSE /\ nifty_trend' = feed.nifty_trend
            /\ gen' = [gen EXCEPT !.pc = "benchmark"]
    /\ UNCHANGED <<journal_vars, calls, now_ist, status_code, market_regime, appended,
                   features, today, watchlist, ran, intraday_df, nifty_intraday, headlines,
                   sentiment, feed>>

\* lines 208-212: the benchmark's intraday frame, empty when the call
\* raises, and its regime
FetchBenchmark(raises) ==
    /\ gen.pc = "benchmark"
    /\ nifty_intraday' = IF raises THEN EmptyBenchmark ELSE feed.benchmark
    /\ market_regime' = compute_market_regime(nifty_intraday')
    /\ gen' = [gen EXCEPT !.pc = "intraday", !.row = 1,
                          !.raised = Caught(<<"get_intraday_history", "">>, raises)]
    /\ UNCHANGED <<journal_vars, calls, now_ist, status_code, nifty_trend, appended,
                   features, today, watchlist, ran, intraday_df, headlines,
                   sentiment, feed>>

\* lines 220-253: the row's intraday frame, empty when the call raises, and
\* the features taken from it
FetchIntraday(raises) ==
    /\ gen.pc = "intraday"
    /\ LET ticker == watchlist.tickers[gen.row]
       IN  /\ features' = IF raises THEN EmptyIntraday ELSE feed.intraday[ticker]
           /\ gen' = [gen EXCEPT !.pc = "headlines",
                                 !.raised = Caught(<<"get_intraday_history", ticker>>, raises)]
    /\ UNCHANGED <<journal_vars, calls, now_ist, status_code, nifty_trend, market_regime,
                   appended, today, watchlist, ran, intraday_df, nifty_intraday, headlines,
                   sentiment, feed>>

\* lines 256-430: get_headlines_for_symbol(), outside every try, the two
\* classifiers, the record appended to results, and the next row or the
\* return of the frame
FetchHeadlines(raises) ==
    /\ gen.pc = "headlines"
    /\ LET ticker == watchlist.tickers[gen.row]
           batch == feed.news[ticker]
           result == simple_sentiment_from_headlines(batch)
           news_risk_flag == determine_news_risk(batch)
           record == PredictionRecord(status_code, nifty_trend, market_regime,
                                      features, result.label, news_risk_flag)
       IN  IF raises
           THEN Raise(<<"get_headlines_for_symbol", ticker>>)
                /\ UNCHANGED <<headlines, sentiment>>
           ELSE /\ headlines' = batch
                /\ sentiment' = [score |-> result.score, label |-> result.label,
                                 summary |-> result.summary,
                                 news_risk_flag |-> news_risk_flag]
                /\ gen' = [gen EXCEPT
                              !.pc = IF gen.row = Len(watchlist.tickers)
                                     THEN "returned" ELSE "intraday",
                              !.row = @ + 1,
                              !.results = Append(@, [ticker |-> ticker,
                                                     sentiment_score |-> result.score,
                                                     record |-> record])]
    /\ UNCHANGED <<journal_vars, calls, now_ist, status_code, nifty_trend, market_regime,
                   appended, features, today, watchlist, ran, intraday_df, nifty_intraday, feed>>

NextAdapters ==
    \/ Begin
    \/ \E raises \in BOOLEAN :
          \/ FetchDailyTrend(raises)
          \/ FetchBenchmark(raises)
          \/ FetchIntraday(raises)
          \/ FetchHeadlines(raises)

SpecAdapters == InitAdapters /\ [][NextAdapters]_vars

(***************************************************************************)
(* SpecOrder: generate_predictions_for_watchlist and upsert_predictions    *)
(* run to completion on the watchlist as the file orders it, with adapters *)
(* that answer what `feed` holds.                                          *)
(***************************************************************************)
\* lines 220-428: the pass of the loop for one watchlist row; the intraday
\* frame is fetched by the row's data_symbol, the headlines by its ticker
LoopRecord(ticker, data_symbol) ==
    LET result == simple_sentiment_from_headlines(feed.news[ticker])
    IN  [ticker |-> ticker,
         sentiment_score |-> result.score,
         record |-> PredictionRecord(get_time_status(now_ist), feed.nifty_trend,
                                     compute_market_regime(feed.benchmark),
                                     feed.intraday[data_symbol], result.label,
                                     determine_news_risk(feed.news[ticker]))]

\* the loop with data_symbol read once, from the first row
FeedResultsFirstSymbol(tickers) ==
    [i \in 1..Len(tickers) |-> LoopRecord(tickers[i], tickers[1])]

\* lines 202-428: results, one record per watchlist row in the file's order
FeedResults(tickers) ==
    [i \in 1..Len(tickers) |-> LoopRecord(tickers[i], tickers[i])]

\* lines 398-430: the frame of results, in the columns the journal keeps
ResultsFrame(results) ==
    [columns |-> PREDICTION_COLUMNS,
     rows |-> [i \in 1..Len(results) |->
        [date |-> today,
         time_bucket |-> floor_time_to_bucket(now_ist, PREDICTION_TIME_BUCKET_MINUTES),
         ticker |-> results[i].ticker,
         prediction_action |-> results[i].record.prediction_action,
         market_regime |-> results[i].record.market_regime,
         status_code |-> results[i].record.status_code]]]

InitOrder ==
    /\ journal \in SeqUpTo(JournalRows, MaxRows)
    /\ store_state = "ok"
    /\ NoUpsert
    /\ now_ist = Clock(10, 0)
    /\ status_code = "NONE"
    /\ nifty_trend = "NEUTRAL"
    /\ market_regime = "UNKNOWN"
    /\ appended = <<>>
    /\ features = EmptyIntraday
    /\ today = FirstDay
    /\ watchlist \in [selection_date : {FirstDay}, usable_for_date : {FirstDay}, tickers : Watchlists]
    /\ ran = NoRuns
    /\ intraday_df = NoBars
    /\ nifty_intraday = EmptyBenchmark
    /\ NoNews
    /\ feed \in {f \in Feeds : f.nifty_trend = "BULLISH" /\ f.benchmark # EmptyBenchmark}
    /\ gen = [pc |-> "idle", row |-> 0, results |-> <<>>, raised |-> {}]

\* app.py lines 138-142: the frame is generated and upserted
GenerateInOrder ==
    /\ pc = "idle"
    /\ LET results == FeedResults(watchlist.tickers)
       IN  /\ gen' = [pc |-> "returned", row |-> Len(results) + 1,
                      results |-> results, raised |-> {}]
           /\ new_preds' = ResultsFrame(results)
           /\ UpsertPredictions(ResultsFrame(results))
    /\ before' = journal
    /\ pc' = "returned"
    /\ UNCHANGED <<calls, engine_vars, features, today, watchlist, ran, intraday_df,
                   nifty_intraday, headlines, sentiment, feed>>

NextOrder == GenerateInOrder \/ Return

SpecOrder == InitOrder /\ [][NextOrder]_vars

(***************************************************************************)
(* Properties of the journal.                                              *)
(***************************************************************************)
\* the identity of a stored record: calendar date, time bucket, ticker
RecordKey(row) == <<2 * (row["date"] \div 2), row["time_bucket"], row["ticker"]>>

OneRecordPerKey(rows) ==
    \A i, j \in 1..Len(rows) : i < j => RecordKey(rows[i]) # RecordKey(rows[j])

RowSet(rows) == {rows[i] : i \in 1..Len(rows)}

\* the record that row i of a frame stands for: a column the frame lacks is
\* empty, the date is the calendar date of the cell
Incoming(df, i) ==
    [date |-> 2 * (df.rows[i]["date"] \div 2),
     time_bucket |-> df.rows[i]["time_bucket"],
     ticker |-> df.rows[i]["ticker"],
     prediction_action |->
        IF "prediction_action" \in df.columns
        THEN df.rows[i]["prediction_action"] ELSE NA,
     market_regime |->
        IF "market_regime" \in df.columns
        THEN df.rows[i]["market_regime"] ELSE NA,
     status_code |->
        IF "status_code" \in df.columns
        THEN df.rows[i]["status_code"] ELSE NA]

\* the last row of the frame with the key of row i
LastFor(df, i) ==
    CHOOSE j \in 1..Len(df.rows) :
        /\ RecordKey(Incoming(df, j)) = RecordKey(Incoming(df, i))
        /\ \A m \in (j + 1)..Len(df.rows) :
               RecordKey(Incoming(df, m)) # RecordKey(Incoming(df, i))

Positions(rows, key) == {n \in 1..Len(rows) : RecordKey(rows[n]) = key}

\* C1: starting from an empty journal, after any sequence of
\* upsert_predictions calls the file holds at most one record per
\* (date, time_bucket, ticker).
C1_OneRecordPerKey == OneRecordPerKey(journal)

\* a call whose frame repeats a key that the file already held
C1_Witness ==
    /\ pc = "returned"
    /\ \E i, j \in 1..Len(new_preds.rows) :
          /\ i < j
          /\ RecordKey(Incoming(new_preds, i)) = RecordKey(Incoming(new_preds, j))
          /\ Positions(before, RecordKey(Incoming(new_preds, i))) # {}
    /\ Len(journal) = 2

\* C2: whatever the file held before the call, upserting the frame of the
\* call that just returned a second time leaves the same key set, the same
\* record per key and no additional row.
C2_Idempotent ==
    pc = "returned" =>
        LET again == UpsertResult(journal, new_preds)
        IN  /\ {RecordKey(r) : r \in RowSet(again)} = {RecordKey(r) : r \in RowSet(journal)}
            /\ RowSet(again) = RowSet(journal)
            /\ Len(again) = Len(journal)

\* a call that changed a journal that was not empty
C2_Witness ==
    /\ pc = "returned"
    /\ ~IsEmpty(new_preds)
    /\ before # <<>>
    /\ journal # before

\* C3: a record whose key the journal already held is overwritten in every
\* field by the incoming record, an absent field becoming empty.
C3_Replacement ==
    pc = "returned" =>
        \A i \in 1..Len(new_preds.rows) :
            LET key == RecordKey(Incoming(new_preds, i))
            IN  Positions(before, key) # {} =>
                   /\ Positions(journal, key) # {}
                   /\ \A n \in Positions(journal, key) :
                          journal[n] = Incoming(new_preds, LastFor(new_preds, i))

\* a stored action is replaced by the empty cell of a frame without the column
C3_Witness ==
    /\ pc = "returned"
    /\ "prediction_action" \notin new_preds.columns
    /\ \E i \in 1..Len(new_preds.rows) :
          \E n \in Positions(before, RecordKey(Incoming(new_preds, i))) :
              before[n]["prediction_action"] # NA

\* C4: whatever the file held before, after the call each key of the frame
\* has exactly one record, the frame's last record for that key.
C4_ExactlyOneLatest ==
    pc = "returned" =>
        \A i \in 1..Len(new_preds.rows) :
            LET key == RecordKey(Incoming(new_preds, i))
            IN  /\ Cardinality(Positions(journal, key)) = 1
                /\ \A n \in Positions(journal, key) :
                       journal[n] = Incoming(new_preds, LastFor(new_preds, i))

\* C5: when the calls of both sessions have finished, however their loads
\* and saves interleaved, the file holds a record for every key of both
\* frames.
C5_NoLostUpdate ==
    (\A s \in Sessions : calls[s].pc = "done") =>
        \A s \in Sessions :
            \A i \in 1..Len(calls[s].new_preds.rows) :
                Positions(journal, RecordKey(Incoming(calls[s].new_preds, i))) # {}

(***************************************************************************)
(* Properties of the session clock.                                        *)
(***************************************************************************)
\* C6: get_time_status returns exactly one of the six phases for every time
\* of day, never OPEN: CLOSED before 09:15 and after 15:30, STUDY in
\* [09:15,10:00), SCALP_1 in [10:00,11:30), NO_NEW_1 in [11:30,13:30),
\* SCALP_2 in [13:30,14:45), NO_NEW_2 in [14:45,15:30].
C6_PhasePartition ==
    status_code # "NONE" =>
        LET minute == now_ist \div TicksPerMinute
            after_close == now_ist > (15 * 60 + 30) * TicksPerMinute
        IN  /\ status_code \in
                  {"CLOSED", "STUDY", "SCALP_1", "NO_NEW_1", "SCALP_2", "NO_NEW_2"}
            /\ status_code = "CLOSED" <=> (minute < 9 * 60 + 15 \/ after_close)
            /\ status_code = "STUDY" <=> (9 * 60 + 15 <= minute /\ minute < 10 * 60)
            /\ status_code = "SCALP_1" <=> (10 * 60 <= minute /\ minute < 11 * 60 + 30)
            /\ status_code = "NO_NEW_1" <=>
                  (11 * 60 + 30 <= minute /\ minute < 13 * 60 + 30)
            /\ status_code = "SCALP_2" <=>
                  (13 * 60 + 30 <= minute /\ minute < 14 * 60 + 45)
            /\ status_code = "NO_NEW_2" <=> (14 * 60 + 45 <= minute /\ ~after_close)

\* the status read at 15:30 sharp
C6_Witness ==
    /\ now_ist = (15 * 60 + 30) * TicksPerMinute
    /\ status_code = "NO_NEW_2"

(***************************************************************************)
(* Properties of the scoring loop.                                         *)
(***************************************************************************)
\* the cycle's gate as the specification words it
GateOpen ==
    \/ status_code = "SCALP_1"
    \/ status_code = "SCALP_2" /\ market_regime # "LOW_VOLATILITY"

\* the record appended by the latest pass has everything in favour of a
\* long signal
FavoursLong ==
    /\ appended # <<>>
    /\ appended[1].nifty_trend = "BULLISH"
    /\ appended[1].stock_short_trend = "UP"
    /\ appended[1].sentiment_label = "POSITIVE"
    /\ appended[1].price_at_prediction # "NaN"
    /\ appended[1].volume_signal = "HIGH"

\* C7: outside SCALP_1 and SCALP_2 every record is NO_TRADE with score 0.0
\* and label 'Very Low or No Trade', whatever the other inputs.
C7_NoSignalOutsideScalp ==
    (appended # <<>> /\ status_code \notin {"SCALP_1", "SCALP_2"}) =>
        /\ appended[1].prediction_action = "NO_TRADE"
        /\ appended[1].confidence_score = 0
        /\ appended[1].confidence_level_label = "Very Low or No Trade"

\* a record of the midday phase with everything in favour of a long signal
C7_Witness ==
    /\ FavoursLong
    /\ status_code = "NO_NEW_1"
    /\ market_regime = "TREND_DAY"
    /\ appended[1].news_risk_flag = "NONE"

\* C8: in SCALP_2 under LOW_VOLATILITY every record is NO_TRADE with score
\* 0.0; in SCALP_1 the LOW_VOLATILITY regime leaves the action rule in force.
C8_Scalp2LowVolatility ==
    (appended # <<>> /\ market_regime = "LOW_VOLATILITY") =>
        /\ status_code = "SCALP_2" =>
              /\ appended[1].prediction_action = "NO_TRADE"
              /\ appended[1].confidence_score = 0
        /\ status_code = "SCALP_1" =>
              /\ (/\ appended[1].nifty_trend = "BULLISH"
                  /\ appended[1].stock_short_trend = "UP"
                  /\ appended[1].sentiment_label # "NEGATIVE"
                  /\ appended[1].price_at_prediction # "NaN")
                 => (/\ appended[1].prediction_action = "LONG_BIAS"
                     /\ appended[1].confidence_score > 0)
              /\ (/\ appended[1].nifty_trend = "BEARISH"
                  /\ appended[1].stock_short_trend = "DOWN"
                  /\ appended[1].sentiment_label # "POSITIVE"
                  /\ appended[1].price_at_prediction # "NaN")
                 => (/\ appended[1].prediction_action = "SHORT_BIAS"
                     /\ appended[1].confidence_score > 0)

\* a record of SCALP_2 under LOW_VOLATILITY with everything in favour of a
\* long signal
C8_Witness ==
    /\ FavoursLong
    /\ status_code = "SCALP_2"
    /\ market_regime = "LOW_VOLATILITY"

\* C9: in an actionable cycle, with the last price known, the action is
\* LONG_BIAS iff BULLISH, UP and sentiment not NEGATIVE; SHORT_BIAS iff
\* BEARISH, DOWN and sentiment not POSITIVE; NO_TRADE otherwise.
C9_ActionRule ==
    (appended # <<>> /\ GateOpen /\ appended[1].price_at_prediction # "NaN") =>
        LET long == /\ appended[1].nifty_trend = "BULLISH"
                    /\ appended[1].stock_short_trend = "UP"
                    /\ appended[1].sentiment_label # "NEGATIVE"
            short == /\ appended[1].nifty_trend = "BEARISH"
                     /\ appended[1].stock_short_trend = "DOWN"
                     /\ appended[1].sentiment_label # "POSITIVE"
        IN  /\ appended[1].prediction_action = "LONG_BIAS" <=> long
            /\ appended[1].prediction_action = "SHORT_BIAS" <=> short
            /\ appended[1].prediction_action = "NO_TRADE" <=> (~long /\ ~short)
            /\ ~(long /\ short)

\* an actionable cycle in which the trends point up and the sentiment is
\* negative
C9_Witness ==
    /\ appended # <<>>
    /\ GateOpen
    /\ appended[1].nifty_trend = "BULLISH"
    /\ appended[1].stock_short_trend = "UP"
    /\ appended[1].sentiment_label = "NEGATIVE"
    /\ appended[1].price_at_prediction # "NaN"
    /\ appended[1].prediction_action = "NO_TRADE"

\* C10: the confidence score of every record lies in [0,1] and is 0.0
\* whenever the action is NO_TRADE.
C10_ScoreRange ==
    appended # <<>> =>
        /\ appended[1].confidence_score \in 0..100
        /\ appended[1].prediction_action = "NO_TRADE" =>
              appended[1].confidence_score = 0

\* a NO_TRADE record of an actionable cycle, with the price known and high
\* volume
C10_Witness ==
    /\ appended # <<>>
    /\ GateOpen
    /\ appended[1].prediction_action = "NO_TRADE"
    /\ appended[1].price_at_prediction # "NaN"
    /\ appended[1].volume_signal = "HIGH"
    /\ appended[1].confidence_score = 0

\* the components of the record appended by the latest pass, in tenths: trend
\* and sentiment as the record reports them, volume and volatility from the
\* labels of the intraday frame, and the multiplier of the regime
ClaimedComponents ==
    LET volume == CASE features.volume_signal = "HIGH" -> 10
                    [] features.volume_signal = "NORMAL" -> 7
                    [] features.volume_signal = "LOW" -> 3
                    [] features.volume_signal = "UNKNOWN" -> 5
        volatility == CASE features.volatility_label = "HIGH" -> 10
                        [] features.volatility_label = "MEDIUM" -> 8
                        [] features.volatility_label = "LOW" -> 4
        multiplier == CASE market_regime = "RANGE_DAY" -> 7
                        [] market_regime = "LOW_VOLATILITY" -> 6
                        [] OTHER -> 10
    IN  <<appended[1].confidence_trend \div 10, volume,
          appended[1].confidence_sentiment \div 10, volatility, multiplier>>

\* 0.30*trend + 0.25*volume + 0.20*sentiment + 0.25*volatility times the
\* multiplier of the regime, in ten-thousandths
ClaimedDampenedSum ==
    LET c == ClaimedComponents
    IN  (30 * c[1] + 25 * c[2] + 20 * c[3] + 25 * c[4]) * c[5]

\* the record is one of an actionable cycle with a signal
HasSignal ==
    /\ appended # <<>>
    /\ GateOpen
    /\ appended[1].prediction_action \in {"LONG_BIAS", "SHORT_BIAS"}

\* C11: with risk flag EVENT_RISK or BREAKING the score is at most 0.6: it is
\* the smaller of 0.6 and the score the same inputs get with flag NONE (the cap
\* comes after the regime dampening); with flag NONE a signal's score is the
\* rounded dampened sum, never lowered.
C11_RiskCap ==
    appended # <<>> =>
        /\ appended[1].news_risk_flag \in {"EVENT_RISK", "BREAKING"} =>
              LET unflagged == PredictionRecord(status_code, nifty_trend, market_regime,
                                                features, appended[1].sentiment_label,
                                                "NONE").confidence_score
              IN  /\ appended[1].confidence_score <= 60
                  /\ appended[1].confidence_score =
                        IF unflagged > 60 THEN 60 ELSE unflagged
        /\ (appended[1].news_risk_flag = "NONE" /\ HasSignal) =>
              appended[1].confidence_score =
                  Round2(ClaimedDampenedSum, ClaimedComponents)

\* a flagged record of a range day whose dampened sum lies above 0.6
C11_Witness ==
    /\ HasSignal
    /\ appended[1].news_risk_flag = "BREAKING"
    /\ market_regime = "RANGE_DAY"
    /\ ClaimedDampenedSum > 6000
    /\ appended[1].confidence_score = 60

\* the scenario of the specification: BULLISH, UP, NEUTRAL sentiment, HIGH
\* volume, HIGH volatility, SCALP_1, TREND_DAY, risk NONE
Scenario ==
    /\ appended # <<>>
    /\ nifty_trend = "BULLISH"
    /\ features.last_price # "NaN"
    /\ features.stock_trend = "UP"
    /\ appended[1].sentiment_label = "NEUTRAL"
    /\ features.volume_signal = "HIGH"
    /\ features.volatility_label = "HIGH"
    /\ status_code = "SCALP_1"
    /\ market_regime = "TREND_DAY"
    /\ appended[1].news_risk_flag = "NONE"

ScenarioResult ==
    /\ appended[1].prediction_action = "LONG_BIAS"
    /\ appended[1].confidence_trend = 100
    /\ appended[1].confidence_volume = 100
    /\ appended[1].confidence_sentiment = 70
    /\ appended[1].confidence_volatility = 100
    /\ appended[1].confidence_score = 94
    /\ appended[1].confidence_level_label = "High"

\* C12 as stated: the score of every signal of an actionable cycle is the
\* rounded weighted sum times the multiplier of the regime, whatever the risk
\* flag; the scenario gives LONG_BIAS, 1.0/1.0/0.7/1.0, 0.94 and High.
C12_WeightedScore ==
    /\ HasSignal =>
          appended[1].confidence_score = Round2(ClaimedDampenedSum, ClaimedComponents)
    /\ Scenario => ScenarioResult

\* C12 amended: the score of every signal of an actionable cycle is the
\* rounded weighted sum times the multiplier of the regime, clamped to at most
\* 0.6 when the risk flag is EVENT_RISK or BREAKING; the scenario gives
\* LONG_BIAS, 1.0/1.0/0.7/1.0, 0.94 and High.
C12_WeightedScoreCapped ==
    /\ HasSignal =>
          /\ appended[1].confidence_volume = 10 * ClaimedComponents[2]
          /\ appended[1].confidence_volatility = 10 * ClaimedComponents[4]
          /\ appended[1].confidence_score =
                IF /\ appended[1].news_risk_flag \in {"EVENT_RISK", "BREAKING"}
                   /\ ClaimedDampenedSum > 6000
                THEN 60
                ELSE Round2(ClaimedDampenedSum, ClaimedComponents)
    /\ Scenario => ScenarioResult

\* the scenario of the specification has been scored
C12_Witness == Scenario /\ ScenarioResult

(***************************************************************************)
(* Properties of the evaluation cycles.                                    *)
(***************************************************************************)
\* C13: all records of the journal that share a (date, time_bucket) carry
\* the identical market_regime, after any cycles with any watchlists.
C13_OneRegimePerBucket ==
    \A i, j \in 1..Len(journal) :
        (/\ journal[i]["date"] = journal[j]["date"]
         /\ journal[i]["time_bucket"] = journal[j]["time_bucket"])
        => journal[i]["market_regime"] = journal[j]["market_regime"]

\* two cycles have run in one window and the journal holds two records of it
C13_Witness ==
    \E w \in Windows :
        /\ ran[w].cycles = 2
        /\ \E i, j \in 1..Len(journal) :
              /\ i # j
              /\ journal[i]["date"] = w[1]
              /\ journal[j]["date"] = w[1]
              /\ journal[i]["time_bucket"] = journal[j]["time_bucket"]
              /\ journal[i]["time_bucket"] = <<10, 0>>

\* the bucket of time of day t starts on a quarter of the hour, not after t
\* and less than 15 minutes before it
FloorsToWindow(t) ==
    LET b == floor_time_to_bucket(t, 15)
        start == (b[1] * 60 + b[2]) * TicksPerMinute
    IN  /\ b[2] \in {0, 15, 30, 45}
        /\ start <= t
        /\ t - start < 15 * TicksPerMinute

\* the positions of the journal's records of ticker in window w
RecordsOf(w, ticker) ==
    {n \in 1..Len(journal) :
        /\ journal[n]["date"] = w[1]
        /\ journal[n]["time_bucket"][1] * 60 + journal[n]["time_bucket"][2] = 15 * w[2]
        /\ journal[n]["ticker"] = ticker}

\* C19: floor_time_to_bucket gives the start of the 15-minute window of any
\* time of day; with a fixed watchlist the journal holds, per ticker, exactly
\* one record for every window in which a cycle ran, the record of the last
\* cycle of that window, and no other record.
C19_OncePerWindow ==
    /\ ran = NoRuns => \A t \in TimesOfDay : FloorsToWindow(t)
    /\ \A w \in Windows :
          \A k \in 1..Len(watchlist.tickers) :
              IF ran[w].cycles = 0
              THEN RecordsOf(w, watchlist.tickers[k]) = {}
              ELSE /\ Cardinality(RecordsOf(w, watchlist.tickers[k])) = 1
                   /\ \A n \in RecordsOf(w, watchlist.tickers[k]) :
                          journal[n] = ran[w].rows[k]
    /\ Len(journal) =
          Cardinality({w \in Windows : ran[w].cycles > 0}) * Len(watchlist.tickers)

\* the second cycle of a window has replaced the records of the first with
\* another regime, and a cycle of the next window has run
C19_Witness ==
    /\ ran[WindowOf(FirstDay, Clock(10, 0))].cycles = 2
    /\ ran[WindowOf(FirstDay, Clock(10, 15))].cycles = 1
    /\ today = FirstDay
    /\ now_ist = Clock(10, 15)
    /\ Len(watchlist.tickers) = 2
    /\ Len(journal) = 4
    /\ journal[1]["market_regime"] # journal[3]["market_regime"]

(***************************************************************************)
(* Properties of the market regime classifier.                             *)
(***************************************************************************)
\* the volatility bucket of a frame: HIGH from 0.004, LOW up to 0.0015
VolatilityBucket(frame) ==
    IF frame.intraday_vol >= 40 THEN "HIGH"
    ELSE IF frame.intraday_vol <= 15 THEN "LOW"
    ELSE "MEDIUM"

\* the trend bucket of a frame: TREND when the move from the first to the
\* last close is at least 0.6 of the day's range, a range of 0 counting as
\* a ratio of 0
TrendBucket(frame) ==
    IF frame.high - frame.low # 0
       /\ 10 * Abs(frame.last - frame.first) >= 6 * (frame.high - frame.low)
    THEN "TREND" ELSE "RANGE"

Classified == market_regime \notin {"NONE", "UNKNOWN"}

\* C15: for a classified frame, TREND with HIGH or MEDIUM volatility gives
\* TREND_DAY, RANGE with HIGH volatility gives HIGH_VOLATILITY, LOW
\* volatility gives LOW_VOLATILITY whatever the trend bucket, and RANGE_DAY
\* results exactly when the trend bucket is RANGE and volatility is MEDIUM.
C15_RegimePriority ==
    Classified =>
        LET vol == VolatilityBucket(nifty_intraday)
            trend == TrendBucket(nifty_intraday)
        IN  /\ trend = "TREND" /\ vol \in {"HIGH", "MEDIUM"} => market_regime = "TREND_DAY"
            /\ trend = "RANGE" /\ vol = "HIGH" => market_regime = "HIGH_VOLATILITY"
            /\ vol = "LOW" => market_regime = "LOW_VOLATILITY"
            /\ market_regime = "RANGE_DAY" <=> trend = "RANGE" /\ vol = "MEDIUM"

\* a trending frame of LOW volatility has been classified LOW_VOLATILITY
C15_Witness ==
    /\ market_regime = "LOW_VOLATILITY"
    /\ TrendBucket(nifty_intraday) = "TREND"
    /\ nifty_intraday.intraday_vol = 15

\* C16: a frame of fewer than 30 bars, the empty one included, is classified
\* UNKNOWN; a frame of 30 or more bars is classified TREND_DAY, RANGE_DAY,
\* HIGH_VOLATILITY or LOW_VOLATILITY, never UNKNOWN.
C16_UnknownBelow30 ==
    market_regime # "NONE" =>
        /\ nifty_intraday.bars < 30 => market_regime = "UNKNOWN"
        /\ nifty_intraday.bars >= 30 =>
              market_regime \in {"TREND_DAY", "RANGE_DAY", "HIGH_VOLATILITY",
                                 "LOW_VOLATILITY"}

\* a frame of exactly 30 bars has been classified
C16_Witness ==
    /\ nifty_intraday.bars = 30
    /\ market_regime = "RANGE_DAY"

(***************************************************************************)
(* Properties of the sentiment and risk classifier.                        *)
(***************************************************************************)
\* the text of a headline: title, a blank, description, in lower case
TextOf(name) == Lower(News[name].title \o <<" ">> \o News[name].description)

\* per headline of News: whether its text contains a breaking keyword, an
\* event keyword
ContainsBreaking ==
    [name \in DOMAIN News |->
        \E i \in DOMAIN BREAKING_KEYWORDS : Contains(BREAKING_KEYWORDS[i], TextOf(name))]

ContainsEvent ==
    [name \in DOMAIN News |->
        \E i \in DOMAIN EVENT_KEYWORDS : Contains(EVENT_KEYWORDS[i], TextOf(name))]

\* the batches that hold the headlines of `batch` in another order
Reorderings(batch) ==
    {[i \in DOMAIN batch |-> batch[p[i]]] : p \in Permutations(DOMAIN batch)}

NewsClassified == sentiment.label # "NONE"

\* C17: the risk flag of a batch is BREAKING if and only if some headline's
\* text contains a breaking keyword, EVENT_RISK if and only if none does and
\* some headline's text contains an event keyword, NONE otherwise (the empty
\* batch included); every reordering of the batch gets the same flag.
C17_RiskFlag ==
    NewsClassified =>
        LET breaking == \E i \in DOMAIN headlines : ContainsBreaking[headlines[i]]
            event == \E i \in DOMAIN headlines : ContainsEvent[headlines[i]]
        IN  /\ sentiment.news_risk_flag = "BREAKING" <=> breaking
            /\ sentiment.news_risk_flag = "EVENT_RISK" <=> ~breaking /\ event
            /\ sentiment.news_risk_flag = "NONE" <=> ~breaking /\ ~event
            /\ \A other \in Reorderings(headlines) :
                  determine_news_risk(other) = sentiment.news_risk_flag

\* a batch that begins with an event headline and ends with one whose title
\* and description only together read "just in" has been flagged BREAKING
C17_Witness ==
    /\ NewsClassified
    /\ Len(headlines) = MaxAlerts
    /\ headlines[1] = "payout"
    /\ headlines[Len(headlines)] = "just_in"
    /\ sentiment.news_risk_flag = "BREAKING"

\* per headline of News: how many positive, negative keywords it hits
PositiveHits ==
    [name \in DOMAIN News |->
        Cardinality({i \in DOMAIN POSITIVE_WORDS :
                        Contains(POSITIVE_WORDS[i], TextOf(name))})]

NegativeHits ==
    [name \in DOMAIN News |->
        Cardinality({i \in DOMAIN NEGATIVE_WORDS :
                        Contains(NEGATIVE_WORDS[i], TextOf(name))})]

AllPositive ==
    /\ headlines # <<>>
    /\ \A i \in DOMAIN headlines :
          PositiveHits[headlines[i]] >= 1 /\ NegativeHits[headlines[i]] = 0

AllNegative ==
    /\ headlines # <<>>
    /\ \A i \in DOMAIN headlines :
          NegativeHits[headlines[i]] >= 1 /\ PositiveHits[headlines[i]] = 0

\* score_norm > 0.2 for the fraction <<numerator, denominator>>
ScoreAboveFifth == 5 * sentiment.score[1] > sentiment.score[2]

EmptyBatchResult ==
    headlines = <<>> =>
        /\ sentiment.score = <<0, 1>>
        /\ sentiment.label = "NEUTRAL"
        /\ sentiment.summary = NO_NEWS_TEXT

\* C18 as claimed: a non-empty batch of any size whose headlines each hit at
\* least one positive and no negative keyword scores above 0.2 and is
\* labelled POSITIVE; one whose headlines each hit only negative keywords is
\* labelled NEGATIVE; the empty batch gives (0.0, NEUTRAL, the fixed text).
C18_OneSided ==
    NewsClassified =>
        /\ AllPositive => ScoreAboveFifth /\ sentiment.label = "POSITIVE"
        /\ AllNegative => sentiment.label = "NEGATIVE"
        /\ EmptyBatchResult

\* C18 amended: the same for all-positive batches of at most 7 headlines and
\* all-negative batches of at most 6 headlines.
C18_OneSidedSmall ==
    NewsClassified =>
        /\ AllPositive /\ Len(headlines) <= 7 =>
              ScoreAboveFifth /\ sentiment.label = "POSITIVE"
        /\ AllNegative /\ Len(headlines) <= 6 => sentiment.label = "NEGATIVE"
        /\ EmptyBatchResult

\* seven headlines, some with one positive hit and some with twelve, have
\* been labelled POSITIVE
C18_Witness ==
    /\ NewsClassified
    /\ Len(headlines) = 7
    /\ AllPositive
    /\ \E i \in DOMAIN headlines : PositiveHits[headlines[i]] = 12
    /\ \E i \in DOMAIN headlines : PositiveHits[headlines[i]] = 1
    /\ sentiment.label = "POSITIVE"

(***************************************************************************)
(* Properties of the adapters' failures.                                   *)
(***************************************************************************)
\* the record of a row whose two fetches answer what the feed holds
Undisturbed(ticker) ==
    LET result == simple_sentiment_from_headlines(feed.news[ticker])
    IN  [ticker |-> ticker,
         sentiment_score |-> result.score,
         record |-> PredictionRecord(status_code, nifty_trend, market_regime,
                                     feed.intraday[ticker], result.label,
                                     determine_news_risk(feed.news[ticker]))]

\* C14: whichever adapter calls raise, generate_predictions_for_watchlist
\* raises nothing and returns one record per watchlist entry; a row whose
\* price fetch failed or was empty has trend SIDEWAYS, volume signal UNKNOWN,
\* the volatility component of MEDIUM, no price, action NO_TRADE and score
\* 0; a row whose headline fetch failed has the sentiment of the empty
\* batch; a row with neither failure has the record it has without failures.
C14_NeverAborts ==
    /\ gen.pc # "raised"
    /\ gen.pc = "returned" =>
          /\ Len(gen.results) = Len(watchlist.tickers)
          /\ \A i \in DOMAIN gen.results :
                LET ticker == watchlist.tickers[i]
                    row == gen.results[i]
                    no_price == <<"get_intraday_history", ticker>> \in gen.raised
                    no_news == <<"get_headlines_for_symbol", ticker>> \in gen.raised
                IN  /\ row.ticker = ticker
                    /\ no_price \/ feed.intraday[ticker] = EmptyIntraday =>
                          /\ row.record.stock_short_trend = "SIDEWAYS"
                          /\ row.record.volume_signal = "UNKNOWN"
                          /\ row.record.confidence_volatility =
                                VolatilityComponent("MEDIUM") * 10
                          /\ row.record.price_at_prediction = "NaN"
                          /\ row.record.prediction_action = "NO_TRADE"
                          /\ row.record.confidence_score = 0
                    /\ no_news =>
                          /\ row.sentiment_score = <<0, 1>>
                          /\ row.record.sentiment_label = "NEUTRAL"
                          /\ row.record.news_risk_flag = "NONE"
                    /\ ~no_price /\ ~no_news => row = Undisturbed(ticker)

\* both rows of a watchlist are returned, the first with its price fetch
\* failed, the second scored LONG_BIAS
C14_Witness ==
    /\ gen.pc = "returned"
    /\ Len(gen.results) = 2
    /\ <<"get_intraday_history", watchlist.tickers[1]>> \in gen.raised
    /\ gen.results[1].record.prediction_action = "NO_TRADE"
    /\ gen.results[2].record.prediction_action = "LONG_BIAS"

(***************************************************************************)
(* The frame of upsert_predictions.                                        *)
(***************************************************************************)
\* the keys of the records of the frame a call was given
BatchKeys == {RecordKey(Incoming(new_preds, i)) : i \in 1..Len(new_preds.rows)}

\* C20: when the file held no key twice as the call began, then after the
\* call every record it held whose key the frame does not name is still
\* there, once and as it was, every key it held is still held, and an empty
\* frame has left the file as it was.
C20_FrameEffect ==
    pc = "returned" /\ OneRecordPerKey(before) =>
        /\ \A n \in 1..Len(before) :
              RecordKey(before[n]) \notin BatchKeys =>
                 /\ Positions(journal, RecordKey(before[n])) # {}
                 /\ \A m \in Positions(journal, RecordKey(before[n])) :
                        journal[m] = before[n]
                 /\ Cardinality(Positions(journal, RecordKey(before[n]))) = 1
        /\ {RecordKey(r) : r \in RowSet(before)} \subseteq
              {RecordKey(r) : r \in RowSet(journal)}
        /\ IsEmpty(new_preds) => journal = before

\* a call that replaced one of two stored records and left the other
C20_Witness ==
    /\ pc = "returned"
    /\ OneRecordPerKey(before)
    /\ Len(before) = 2
    /\ journal # before
    /\ \E n \in 1..Len(before) :
          /\ RecordKey(before[n]) \notin BatchKeys
          /\ before[n] \in RowSet(journal)
    /\ \E n \in 1..Len(before) : RecordKey(before[n]) \in BatchKeys

(***************************************************************************)
(* Values the records never take.                                          *)
(***************************************************************************)
IsSignal(record) == record.prediction_action \in {"LONG_BIAS", "SHORT_BIAS"}

\* C25: confidence_trend is 1.0 on every LONG_BIAS or SHORT_BIAS record and
\* 0.0 on every NO_TRADE record (never 0.7 or 0.3); confidence_sentiment is
\* 1.0 or 0.7 on a LONG_BIAS or SHORT_BIAS record and 0.5 on a NO_TRADE
\* record (never 0.3).
C25_NoPartialAlignment ==
    appended # <<>> =>
        /\ IsSignal(appended[1]) =>
              /\ appended[1].confidence_trend = 100
              /\ appended[1].confidence_sentiment \in {100, 70}
        /\ appended[1].prediction_action = "NO_TRADE" =>
              /\ appended[1].confidence_trend = 0
              /\ appended[1].confidence_sentiment = 50

\* a SHORT_BIAS record on NEUTRAL sentiment
C25_Witness ==
    /\ appended # <<>>
    /\ appended[1].prediction_action = "SHORT_BIAS"
    /\ appended[1].sentiment_label = "NEUTRAL"
    /\ appended[1].confidence_trend = 100
    /\ appended[1].confidence_sentiment = 70

\* C26: the score is 0.0 exactly on the NO_TRADE records; a LONG_BIAS or
\* SHORT_BIAS record scores at least 0.37; the label "Very Low or No Trade"
\* is on exactly the NO_TRADE records; the label "Low" is only on records of
\* regime LOW_VOLATILITY.
C26_ZeroOnlyNoTrade ==
    appended # <<>> =>
        /\ appended[1].confidence_score = 0 <=>
              appended[1].prediction_action = "NO_TRADE"
        /\ IsSignal(appended[1]) => appended[1].confidence_score >= 37
        /\ appended[1].confidence_level_label = "Very Low or No Trade" <=>
              appended[1].prediction_action = "NO_TRADE"
        /\ appended[1].confidence_level_label = "Low" =>
              appended[1].market_regime = "LOW_VOLATILITY"

\* a LONG_BIAS record of the lowest score, 0.37, labelled Low
C26_Witness ==
    /\ appended # <<>>
    /\ appended[1].prediction_action = "LONG_BIAS"
    /\ appended[1].confidence_score = 37
    /\ appended[1].confidence_level_label = "Low"
    /\ appended[1].market_regime = "LOW_VOLATILITY"

\* C27: a record whose risk flag is EVENT_RISK or BREAKING, and a record
\* whose regime is LOW_VOLATILITY, is never labelled High; when its action
\* is LONG_BIAS or SHORT_BIAS its label is Medium or Low.
C27_NoHighUnderRisk ==
    /\ appended # <<>>
    /\ \/ appended[1].news_risk_flag \in {"EVENT_RISK", "BREAKING"}
       \/ appended[1].market_regime = "LOW_VOLATILITY"
    => /\ appended[1].confidence_level_label # "High"
       /\ IsSignal(appended[1]) =>
             appended[1].confidence_level_label \in {"Medium", "Low"}

\* a LOW_VOLATILITY record with every component at 1.0, labelled Medium
C27_Witness ==
    /\ appended # <<>>
    /\ appended[1].market_regime = "LOW_VOLATILITY"
    /\ appended[1].news_risk_flag = "NONE"
    /\ appended[1].confidence_trend = 100
    /\ appended[1].confidence_volume = 100
    /\ appended[1].confidence_sentiment = 100
    /\ appended[1].confidence_volatility = 100
    /\ appended[1].confidence_score = 60
    /\ appended[1].confidence_level_label = "Medium"

(***************************************************************************)
(* The watchlist from one day to the next.                                 *)
(***************************************************************************)
\* C23: on the day after the day the screener last saved a watchlist,
\* load_today_watchlist returns the tickers it saved.
C23_ReadyNextDay ==
    /\ today = watchlist.selection_date + (NextDay - FirstDay)
    /\ watchlist.tickers # <<>>
    => load_today_watchlist = watchlist.tickers

\* the day after the screener's, with a cycle run on the screener's day
C23_Witness ==
    /\ today = NextDay
    /\ watchlist.selection_date = FirstDay
    /\ ran[WindowOf(FirstDay, Clock(10, 0))].cycles > 0

(***************************************************************************)
(* The gate of the closed market.                                          *)
(***************************************************************************)
\* C24: whenever the two clocks are read, the journal holds no record whose
\* status_code is CLOSED.
C24_NoClosedRecord ==
    \A i \in 1..Len(journal) : journal[i]["status_code"] # "CLOSED"

\* a rendering at the last moment of NO_NEW_2 has written its records
C24_Witness ==
    \E i \in 1..Len(journal) :
        /\ journal[i]["status_code"] = "NO_NEW_2"
        /\ journal[i]["time_bucket"] = <<15, 30>>

(***************************************************************************)
(* The unreadable store.                                                   *)
(***************************************************************************)
\* C22: a call that reads an unreadable file (load_prediction_journal, or
\* upsert_predictions with a non-empty frame) raises and leaves the file as
\* it was; a call on a missing file does not raise and reads no rows.
C22_HardFailure ==
    [][pc = "idle" /\ pc' # "idle" =>
         /\ (/\ store_state = "corrupt"
             /\ pc' \in {"loaded", "raised"} \/ ~IsEmpty(new_preds'))
            => /\ pc' = "raised"
               /\ journal' = journal
               /\ store_state' = "corrupt"
         /\ store_state = "missing" =>
               /\ pc' # "raised"
               /\ pc' = "loaded" => new_preds'.rows = <<>>
               /\ ~IsEmpty(new_preds') => journal' = Merged(<<>>, new_preds')]_vars

\* upsert_predictions of a non-empty frame has raised on an unreadable file
\* that once held a record
C22_Witness ==
    /\ pc = "raised"
    /\ store_state = "corrupt"
    /\ ~IsEmpty(new_preds)
    /\ journal # <<>>
    /\ journal = before

(***************************************************************************)
(* The volume signal.                                                      *)
(***************************************************************************)
\* C28: the record of a frame with 1 to 59 bars has volume_signal NORMAL
\* (volume_ratio is 1) and confidence_volume 0.7; a record with HIGH or LOW
\* comes from a frame of 60 bars or more; a record has UNKNOWN exactly when
\* its frame is empty.
C28_ShortSeriesNormal ==
    appended # <<>> =>
        LET bars == Len(intraday_df.Volume)
            ratio == volume_ratio(intraday_df.Volume)
            record == appended[1]
        IN  /\ bars > 0 /\ bars < 60 =>
                /\ ratio[1] = ratio[2]
                /\ record.volume_signal = "NORMAL"
                /\ record.confidence_volume = 70
            /\ record.volume_signal \in {"HIGH", "LOW"} => bars >= 60
            /\ record.volume_signal = "UNKNOWN" <=> bars = 0

\* a record of a frame of 59 bars whose last 20 volumes are above the
\* earlier ones
C28_Witness ==
    /\ appended # <<>>
    /\ Len(intraday_df.Volume) = 59
    /\ intraday_df.Volume[1] < intraday_df.Volume[59]
    /\ intraday_df.Volume[39] < intraday_df.Volume[40]
    /\ appended[1].volume_signal = "NORMAL"
    /\ appended[1].confidence_volume = 70

(***************************************************************************)
(* The order of the watchlist.                                             *)
(***************************************************************************)
\* C21: with the watchlist in any other order the loop gives the same set
\* of records, and upserting them into the journal as it was gives the same
\* records as the journal now holds.
C21_OrderIndependent ==
    pc = "returned" =>
        \A tickers \in Reorderings(watchlist.tickers) :
            /\ RowSet(FeedResults(tickers)) = RowSet(gen.results)
            /\ RowSet(UpsertResult(before, ResultsFrame(FeedResults(tickers))))
                  = RowSet(journal)
            /\ Len(UpsertResult(before, ResultsFrame(FeedResults(tickers))))
                  = Len(journal)

\* a cycle over two rows whose records differ, upserted into a journal that
\* held a record of one of them
C21_Witness ==
    /\ pc = "returned"
    /\ Len(watchlist.tickers) = 2
    /\ gen.results[1].record # gen.results[2].record
    /\ Len(before) = 1
    /\ Len(journal) = 2
    /\ before[1] \notin RowSet(journal)

====
